---------------------------- MODULE Spec2Model ----------------------------
(***************************************************************************)
(* Model of the native tracer core of libdebug                             *)
(* (libdebug/cffi/ptrace_cffi_source.c), x86_64 build (ARCH_AMD64).        *)
(*                                                                         *)
(* The state is the global_state handle (thread lists, breakpoint tables)  *)
(* together with the part of the kernel and of the tracee the entry points *)
(* talk to: the tracee's code bytes, each thread's kernel registers, run   *)
(* state and pending wait status, and each thread's debug registers.       *)
(*                                                                         *)
(* Machine words are sequences of WordBytes bytes, low byte first          *)
(* (little endian), because the 64-bit values do not fit TLC's integers.   *)
(* DR7 is the set of its bit positions that are set.                       *)
(***************************************************************************)
EXTENDS Integers, Sequences, FiniteSets, TLC

VARIABLES
    t_HEAD,                  \* global_state.t_HEAD: live threads, head first
    dead_t_HEAD,             \* global_state.dead_t_HEAD: dead threads, head first
    sw_b_HEAD,               \* global_state.sw_b_HEAD: software breakpoints
    hw_b_HEAD,               \* global_state.hw_b_HEAD: hardware breakpoints
    handle_syscall_enabled,  \* global_state.handle_syscall_enabled
    mem,                     \* tracee code memory, one byte per address
    kregs,                   \* kernel registers of each thread
    krun,                    \* kernel run state of each thread
    kstatus,                 \* wait status of each thread not yet reaped (0: none)
    ksigstop,                \* a SIGSTOP is queued for the thread, not yet delivered
    kstack,                  \* return addresses on each thread's stack, top first
    dr,                      \* DR0..DR3 of each thread
    dr7,                     \* DR7 of each thread, as the set of its set bits
    last,                    \* the entry point called last, its arguments and result
    klog,                    \* the kernel requests the last entry point issued
    snap,                    \* debug registers before a register_hw_breakpoint
    in_stop_window           \* the tracee was stopped by a wait and not resumed since

vars == <<t_HEAD, dead_t_HEAD, sw_b_HEAD, hw_b_HEAD, handle_syscall_enabled,
          mem, kregs, krun, kstatus, ksigstop, kstack, dr, dr7, last, klog, snap,
          in_stop_window>>

globalVars == <<t_HEAD, dead_t_HEAD, sw_b_HEAD, hw_b_HEAD, handle_syscall_enabled>>
threadVars == <<t_HEAD, dead_t_HEAD>>
kernelVars == <<mem, kregs, krun, kstatus, ksigstop, kstack>>
debugVars  == <<dr, dr7>>

(***************************************************************************)
(* Bounds and program constants                                            *)
(***************************************************************************)

\* the tracee: the group leader (tid == pid) and one more thread
Pid == 1
Tids == {1, 2}

\* the number of thread entries (live and dead) the caller lets the core allocate
MaxThreadObjs == 3

\* DR0..DR3
NumDebugRegs == 4

\* sizeof(uint64_t): the bytes of one PEEKDATA / POKEDATA transfer
WordBytes == 8

Min(S) == CHOOSE x \in S : \A y \in S : x <= y

\* the sequence s without its i-th element
RemoveAt(s, i) == SubSeq(s, 1, i - 1) \o SubSeq(s, i + 1, Len(s))

\* the least index of s in the set I, 0 when I is empty: the element a list
\* search loop stops at
FirstIndex(s, I) == IF I = {} THEN 0 ELSE Min(I)

Call(op, tid, addr, ret) == [op |-> op, tid |-> tid, addr |-> addr, ret |-> ret]

NoSnap == [valid |-> FALSE, tid |-> 0, addr |-> 0, dr |-> <<>>, dr7 |-> {}, done |-> FALSE]

(***************************************************************************)
(* The tracee and the kernel                                               *)
(***************************************************************************)

\* x86_64 opcodes of the tracee's program
OP_NOP == 144      \* 0x90
OP_INT3 == 204     \* 0xCC
OP_JMP8 == 235     \* 0xEB: jmp rel8
OP_CALL == 232     \* 0xE8: call rel32
OP_RET == 195      \* 0xC3

\* wait statuses: (signal << 8) | 0x7f
SIGTRAP_STATUS == 1407
SIGSTOP_STATUS == 4991
SIGUSR1_STATUS == 2687
SIGUSR1 == 10

\* the tracee's code: 0: nop; 1: jmp 0; 3: jmp 0; zero bytes up to the end of the mapping
\* (the byte at 2 is the displacement of the jmp at 1, and decodes as the
\* one-byte std when a thread is resumed there)
MemSize == 24
MemAddrs == 0..(MemSize - 1)
ProgramBytes == <<OP_NOP, OP_JMP8, 253, OP_JMP8, 251>>
Program == [a \in MemAddrs |-> IF a < Len(ProgramBytes) THEN ProgramBytes[a + 1] ELSE 0]

\* the addresses the caller puts software breakpoints on (both start an instruction,
\* and their machine words overlap), and the instruction pointers it writes
BpAddrs == {0, 1}
CallerIps == {0, 1}
\* the address the run specification puts its breakpoint at
RunBpAddrs == {1}

\* the kernel side of the state as one value
K == [mem |-> mem, regs |-> kregs, run |-> krun, status |-> kstatus,
      sigstop |-> ksigstop, stack |-> kstack]

SetK(k) ==
    /\ mem' = k.mem
    /\ kregs' = k.regs
    /\ krun' = k.run
    /\ kstatus' = k.status
    /\ ksigstop' = k.sigstop
    /\ kstack' = k.stack

Signed8(b) == IF b >= 128 THEN b - 256 ELSE b

\* one instruction of thread tid: the kernel state after it
Exec(k, tid) ==
    LET ip == k.regs[tid].ip
        op == k.mem[ip]
    IN  IF op = OP_JMP8
        THEN [k EXCEPT !.regs[tid].ip = ip + 2 + Signed8(k.mem[ip + 1])]
        ELSE IF op = OP_CALL
        THEN [k EXCEPT !.regs[tid].ip = ip + 5 + Signed8(k.mem[ip + 1]),
                       !.stack[tid] = <<ip + 5>> \o @]
        ELSE IF op = OP_RET /\ k.stack[tid] # <<>>
        THEN [k EXCEPT !.regs[tid].ip = Head(k.stack[tid]), !.stack[tid] = Tail(@)]
        ELSE [k EXCEPT !.regs[tid].ip = ip + 1]

\* ptrace requests need the thread in ptrace-stop
Stopped(k, tid) == k.run[tid] = "stopped"

WorldStopped == \A t \in Tids : krun[t] = "stopped"

\* PTRACE_PEEKDATA: the machine word at addr, low byte first
PeekData(m, addr) == [i \in 1..WordBytes |-> m[addr + i - 1]]

\* PTRACE_POKEDATA: memory with the machine word at addr replaced
PokeData(m, addr, word) ==
    [a \in MemAddrs |-> IF a >= addr /\ a < addr + WordBytes THEN word[a - addr + 1] ELSE m[a]]

\* PTRACE_SINGLESTEP followed by waitpid on the thread: a queued SIGSTOP is
\* reported before any instruction runs, otherwise one instruction runs
StepAndWait(k, tid) ==
    IF k.sigstop[tid]
    THEN [k |-> [k EXCEPT !.sigstop[tid] = FALSE, !.status[tid] = 0], status |-> SIGSTOP_STATUS]
    ELSE [k |-> [Exec(k, tid) EXCEPT !.status[tid] = 0], status |-> SIGTRAP_STATUS]

Req(req, tid, arg, k) ==
    [req |-> req, tid |-> tid, arg |-> arg, ok |-> Stopped(k, tid),
     ip |-> k.regs[tid].ip, byte |-> k.mem[k.regs[tid].ip]]

IsResume(e) == e.req \in {"SINGLESTEP", "CONT", "SYSCALL"}

(***************************************************************************)
(* Architecture macros, x86_64                                             *)
(***************************************************************************)

INSTRUCTION_POINTER(regs) == regs.ip

\* a patch that replaces the whole word by the trap instruction
INSTALL_BREAKPOINT_whole_word(instruction) ==
    [i \in 1..Len(instruction) |-> IF i = 1 THEN OP_INT3 ELSE 0]

INSTALL_BREAKPOINT(instruction) == [instruction EXCEPT ![1] = OP_INT3]

IS_SW_BREAKPOINT(byte) == byte = OP_INT3

IS_CALL_INSTRUCTION(window) == window[1] = OP_CALL

IS_RET_INSTRUCTION(byte) == byte = OP_RET

(***************************************************************************)
(* Thread table                                                            *)
(***************************************************************************)

\* the signals the caller asks to forward
Signals == {SIGUSR1}

\* the register values an uninitialised block may hold
AnyRegs == {[ip |-> a] : a \in {0, 1, 2, 3}}

ThreadIndex(T, tid) ==
    FirstIndex(T, {i \in 1..Len(T) : T[i].tid = tid})

\* get_thread
get_thread(tid) == ThreadIndex(t_HEAD, tid)

\* the address malloc returns: a block no live or dead entry occupies
NewObj == Len(t_HEAD) + Len(dead_t_HEAD) + 1

\* a registering that takes the retired entry of the thread id back into the
\* live list, as it is, instead of allocating one
thread_alloc_revive(tid, regs) ==
    LET d == ThreadIndex(dead_t_HEAD, tid)
    IN  /\ NewObj <= MaxThreadObjs
        /\ IF d # 0
           THEN /\ t_HEAD' = <<dead_t_HEAD[d]>> \o t_HEAD
                /\ dead_t_HEAD' = RemoveAt(dead_t_HEAD, d)
                /\ last' = Call("register_thread", tid, 0, dead_t_HEAD[d].obj)
                /\ klog' = <<>>
           ELSE /\ t_HEAD' = <<[tid |-> tid, regs |-> regs, signal_to_forward |-> 0,
                                obj |-> NewObj]>> \o t_HEAD
                /\ dead_t_HEAD' = dead_t_HEAD
                /\ last' = Call("register_thread", tid, 0, NewObj)
                /\ klog' = <<Req("GETREGS", tid, regs, K)>>
        /\ UNCHANGED <<sw_b_HEAD, hw_b_HEAD, handle_syscall_enabled,
                       kernelVars, debugVars, snap,
                       in_stop_window>>

\* register_thread, lines 511-524: allocate an entry, read its registers, link it at the head
thread_alloc(tid, regs) ==
    /\ NewObj <= MaxThreadObjs
    /\ t_HEAD' = <<[tid |-> tid, regs |-> regs, signal_to_forward |-> 0, obj |-> NewObj]>>
                   \o t_HEAD
    /\ last' = Call("register_thread", tid, 0, NewObj)
    /\ klog' = <<Req("GETREGS", tid, regs, K)>>
    /\ UNCHANGED <<dead_t_HEAD, sw_b_HEAD, hw_b_HEAD, handle_syscall_enabled,
                   kernelVars, debugVars, snap,
                   in_stop_window>>

\* a register_thread that skips the search of the live list
register_thread_no_lookup(tid, regs) == thread_alloc(tid, regs)

\* register_thread: a thread already registered is returned as it is
register_thread(tid, regs) ==
    LET i == ThreadIndex(t_HEAD, tid)
    IN  IF i # 0
        THEN /\ last' = Call("register_thread", tid, 0, t_HEAD[i].obj)
             /\ klog' = <<>>
             /\ UNCHANGED <<globalVars, kernelVars, debugVars, snap,
                            in_stop_window>>
        ELSE thread_alloc(tid, regs)

\* the block getregs fills: the kernel's registers, or what malloc left there
\* when the request fails
RegsRead(tid) == IF Stopped(K, tid) THEN {kregs[tid]} ELSE AnyRegs

\* an unregistering that links the entry into the dead list and leaves it in
\* the live list
unregister_thread_keep_live(tid) ==
    LET i == ThreadIndex(t_HEAD, tid)
    IN  /\ last' = Call("unregister_thread", tid, 0, 0)
        /\ klog' = <<>>
        /\ IF i = 0
           THEN UNCHANGED threadVars
           ELSE /\ t_HEAD' = t_HEAD
                /\ dead_t_HEAD' = <<t_HEAD[i]>> \o dead_t_HEAD
        /\ UNCHANGED <<sw_b_HEAD, hw_b_HEAD, handle_syscall_enabled,
                       kernelVars, debugVars, snap,
                       in_stop_window>>

\* an unregistering that clears the registers of the entry it retires
unregister_thread_clear_regs(tid) ==
    LET i == ThreadIndex(t_HEAD, tid)
    IN  /\ last' = Call("unregister_thread", tid, 0, 0)
        /\ klog' = <<>>
        /\ IF i = 0
           THEN UNCHANGED threadVars
           ELSE /\ t_HEAD' = RemoveAt(t_HEAD, i)
                /\ dead_t_HEAD' = <<[t_HEAD[i] EXCEPT !.regs = [ip |-> 0]]>> \o dead_t_HEAD
        /\ UNCHANGED <<sw_b_HEAD, hw_b_HEAD, handle_syscall_enabled,
                       kernelVars, debugVars, snap,
                       in_stop_window>>

unregister_thread(tid) ==
    LET i == ThreadIndex(t_HEAD, tid)
    IN  /\ last' = Call("unregister_thread", tid, 0, 0)
        /\ klog' = <<>>
        /\ IF i = 0
           THEN UNCHANGED threadVars
           ELSE /\ t_HEAD' = RemoveAt(t_HEAD, i)
                /\ dead_t_HEAD' = <<t_HEAD[i]>> \o dead_t_HEAD
        /\ UNCHANGED <<sw_b_HEAD, hw_b_HEAD, handle_syscall_enabled,
                       kernelVars, debugVars, snap,
                       in_stop_window>>

free_thread_list ==
    /\ last' = Call("free_thread_list", 0, 0, 0)
    /\ klog' = <<>>
    /\ t_HEAD' = <<>>
    /\ dead_t_HEAD' = <<>>
    /\ UNCHANGED <<sw_b_HEAD, hw_b_HEAD, handle_syscall_enabled, kernelVars, debugVars, snap,
                   in_stop_window>>

\* the caller writes the instruction pointer of a cached register block
CallerSetIp(tid, ip) ==
    LET i == ThreadIndex(t_HEAD, tid)
    IN  /\ i # 0
        /\ t_HEAD[i].regs.ip # ip
        /\ t_HEAD' = [t_HEAD EXCEPT ![i].regs.ip = ip]
        /\ last' = Call("caller_set_ip", tid, ip, 0)
        /\ klog' = <<>>
        /\ UNCHANGED <<dead_t_HEAD, sw_b_HEAD, hw_b_HEAD, handle_syscall_enabled,
                       kernelVars, debugVars, snap,
                       in_stop_window>>

\* the caller asks for a signal to be forwarded on the next resume
CallerSetSignal(tid, sig) ==
    LET i == ThreadIndex(t_HEAD, tid)
    IN  /\ i # 0
        /\ t_HEAD[i].signal_to_forward # sig
        /\ t_HEAD' = [t_HEAD EXCEPT ![i].signal_to_forward = sig]
        /\ last' = Call("caller_set_signal", tid, sig, 0)
        /\ klog' = <<>>
        /\ UNCHANGED <<dead_t_HEAD, sw_b_HEAD, hw_b_HEAD, handle_syscall_enabled,
                       kernelVars, debugVars, snap,
                       in_stop_window>>

(***************************************************************************)
(* Software breakpoints                                                    *)
(***************************************************************************)

SwIndex(B, address) ==
    FirstIndex(B, {i \in 1..Len(B) : B[i].addr = address})

\* an insert that links every new entry at the head
sorted_insert_at_head(B, address) == 1

\* register_breakpoint, lines 1076-1091: the index the new entry is linked at
sorted_insert(B, address) ==
    IF B = <<>> \/ B[1].addr > address
    THEN 1
    ELSE Min({j \in 2..(Len(B) + 1) : j = Len(B) + 1 \/ ~(B[j].addr < address)})

InsertAt(s, i, e) == SubSeq(s, 1, i - 1) \o <<e>> \o SubSeq(s, i, Len(s))

register_breakpoint(pid, address) ==
    LET instruction == PeekData(mem, address)
        patched_instruction == INSTALL_BREAKPOINT(instruction)
        i == SwIndex(sw_b_HEAD, address)
        b == [addr |-> address, instruction |-> instruction,
              patched_instruction |-> patched_instruction, enabled |-> TRUE]
    IN  /\ WorldStopped
        /\ mem' = PokeData(mem, address, patched_instruction)
        /\ IF i # 0
           THEN sw_b_HEAD' = [sw_b_HEAD EXCEPT ![i].enabled = TRUE]
           ELSE sw_b_HEAD' = InsertAt(sw_b_HEAD, sorted_insert(sw_b_HEAD, address), b)
        /\ last' = Call("register_breakpoint", pid, address, 0)
        /\ klog' = <<>>
        /\ UNCHANGED <<threadVars, hw_b_HEAD, handle_syscall_enabled,
                       kregs, krun, kstatus, ksigstop, kstack, debugVars, snap,
                       in_stop_window>>

unregister_breakpoint(address) ==
    LET i == SwIndex(sw_b_HEAD, address)
    IN  /\ WorldStopped
        /\ sw_b_HEAD' = IF i = 0 THEN sw_b_HEAD ELSE RemoveAt(sw_b_HEAD, i)
        /\ last' = Call("unregister_breakpoint", 0, address, 0)
        /\ klog' = <<>>
        /\ UNCHANGED <<threadVars, hw_b_HEAD, handle_syscall_enabled,
                       kernelVars, debugVars, snap,
                       in_stop_window>>

SetEnabled(B, address, flag) ==
    [j \in 1..Len(B) |-> IF B[j].addr = address THEN [B[j] EXCEPT !.enabled = flag] ELSE B[j]]

enable_breakpoint(address) ==
    /\ WorldStopped
    /\ sw_b_HEAD' = SetEnabled(sw_b_HEAD, address, TRUE)
    /\ last' = Call("enable_breakpoint", 0, address, 0)
    /\ klog' = <<>>
    /\ UNCHANGED <<threadVars, hw_b_HEAD, handle_syscall_enabled, kernelVars, debugVars, snap,
                   in_stop_window>>

disable_breakpoint(address) ==
    /\ WorldStopped
    /\ sw_b_HEAD' = SetEnabled(sw_b_HEAD, address, FALSE)
    /\ last' = Call("disable_breakpoint", 0, address, 0)
    /\ klog' = <<>>
    /\ UNCHANGED <<threadVars, hw_b_HEAD, handle_syscall_enabled, kernelVars, debugVars, snap,
                   in_stop_window>>

(***************************************************************************)
(* Run/stop coordinator                                                    *)
(***************************************************************************)

\* a flush that stops after the first entry of the list
flush_head_only(k, T) ==
    [k |-> [k EXCEPT !.regs = [t \in Tids |->
                IF T # <<>> /\ T[1].tid = t /\ Stopped(k, t) THEN T[1].regs ELSE k.regs[t]]],
     log |-> [i \in 1..Min({1, Len(T)}) |-> Req("SETREGS", T[i].tid, T[i].regs, k)]]

\* the flush loops: setregs of every live thread's cached block, in list order;
\* the kernel state they leave and the requests they issue
flush(k, T) ==
    [k |-> [k EXCEPT !.regs = [t \in Tids |->
                IF ThreadIndex(T, t) # 0 /\ Stopped(k, t)
                THEN T[ThreadIndex(T, t)].regs
                ELSE k.regs[t]]],
     log |-> [i \in 1..Len(T) |-> Req("SETREGS", T[i].tid, T[i].regs, k)]]

FlushRegs(k, T) == flush(k, T).k

FlushLog(k, T) == flush(k, T).log

\* the same writes, made from the tail of the list to its head
RECURSIVE WriteBreakpointsDescending(_, _, _, _)
WriteBreakpointsDescending(m, B, i, patched) ==
    IF i > Len(B)
    THEN m
    ELSE WriteBreakpointsDescending(
             IF B[Len(B) + 1 - i].enabled
             THEN PokeData(m, B[Len(B) + 1 - i].addr,
                           IF patched THEN B[Len(B) + 1 - i].patched_instruction
                           ELSE B[Len(B) + 1 - i].instruction)
             ELSE m,
             B, i + 1, patched)

\* the loops that write a word at every enabled software breakpoint, in list order:
\* patched_instruction (patched = TRUE) or instruction
RECURSIVE WriteBreakpoints(_, _, _, _)
WriteBreakpoints(m, B, i, patched) ==
    IF i > Len(B)
    THEN m
    ELSE WriteBreakpoints(
             IF B[i].enabled
             THEN PokeData(m, B[i].addr,
                           IF patched THEN B[i].patched_instruction ELSE B[i].instruction)
             ELSE m,
             B, i + 1, patched)

\* prepare_for_run, lines 879-892: a thread that sits on a breakpoint is stepped
\* over it, and stepped once more when the first step only reported a SIGSTOP;
\* st is the kernel state, the status and the requests so far
step_over(st, t, B) ==
    LET t_hit == \E j \in 1..Len(B) : B[j].addr = INSTRUCTION_POINTER(t.regs)
        s1 == StepAndWait(st.k, t.tid)
        s2 == StepAndWait(s1.k, t.tid)
        first == Req("SINGLESTEP", t.tid, 0, st.k)
    IN  IF ~t_hit
        THEN st
        ELSE IF ~Stopped(st.k, t.tid)
        THEN [k |-> st.k, status |-> -1, log |-> Append(st.log, first), err |-> TRUE]
        ELSE IF s1.status = SIGSTOP_STATUS
        THEN [k |-> s2.k, status |-> s2.status,
              log |-> st.log \o <<first, Req("SINGLESTEP", t.tid, 0, s1.k)>>, err |-> FALSE]
        ELSE [k |-> s1.k, status |-> s1.status, log |-> Append(st.log, first), err |-> FALSE]

\* prepare_for_run, lines 866-895: the loop over the live threads, from the i-th
RECURSIVE StepOver(_, _, _, _)
StepOver(st, T, B, i) ==
    IF i > Len(T) \/ st.err
    THEN st
    ELSE CHOOSE r \in {StepOver(n, T, B, i + 1) : n \in {step_over(st, T[i], B)}} : TRUE

\* prepare_for_run: the kernel state it leaves, its return value and its requests
prepare_for_run(k, T, B) ==
    LET start == [k |-> FlushRegs(k, T), status |-> 0, log |-> FlushLog(k, T), err |-> FALSE]
        stepped(st) == IF st.err
                       THEN st
                       ELSE [st EXCEPT !.k.mem = WriteBreakpoints(st.k.mem, B, 1, TRUE)]
    IN  CHOOSE r \in {stepped(st) : st \in {StepOver(start, T, B, 1)}} : TRUE

ClearSignals(T) == [i \in 1..Len(T) |-> [T[i] EXCEPT !.signal_to_forward = 0]]

\* the entry point prepare_for_run, called on its own, whatever the threads do
prepare_for_run_entry ==
    /\ \E p \in {prepare_for_run(K, t_HEAD, sw_b_HEAD)} :
          /\ SetK(p.k)
          /\ last' = Call("prepare_for_run", Pid, 0, p.status)
          /\ klog' = p.log
    /\ UNCHANGED <<globalVars, debugVars, snap>>
    /\ in_stop_window' = FALSE

\* prepare_for_run called while every thread is in ptrace-stop
prepare_for_run_call == WorldStopped /\ prepare_for_run_entry

\* cont_all_and_set_bps, lines 954-962: the resume request of every live thread
ContRequests(k, T, request) ==
    [i \in 1..Len(T) |-> Req(request, T[i].tid, T[i].signal_to_forward, k)]

\* cont_all_and_set_bps, lines 949-965, whatever the threads do
cont_all_and_set_bps_entry ==
    /\ \E p \in {prepare_for_run(K, t_HEAD, sw_b_HEAD)} :
          LET request == IF handle_syscall_enabled THEN "SYSCALL" ELSE "CONT"
              resumed(t) == ThreadIndex(t_HEAD, t) # 0 /\ Stopped(p.k, t)
          IN  /\ SetK([p.k EXCEPT
                         !.run = [t \in Tids |-> IF resumed(t) THEN "running" ELSE p.k.run[t]],
                         !.status = [t \in Tids |-> IF resumed(t) THEN 0 ELSE p.k.status[t]]])
              /\ last' = Call("cont_all_and_set_bps", Pid, 0, p.status)
              /\ klog' = p.log \o ContRequests(p.k, t_HEAD, request)
    /\ t_HEAD' = ClearSignals(t_HEAD)
    /\ UNCHANGED <<dead_t_HEAD, sw_b_HEAD, hw_b_HEAD, handle_syscall_enabled,
                   debugVars, snap>>
    /\ in_stop_window' = FALSE

\* cont_all_and_set_bps called while every thread is in ptrace-stop
cont_all_and_set_bps == WorldStopped /\ cont_all_and_set_bps_entry

\* a singlestep that forgets the signal of every live thread
singlestep_clear_all(tid) ==
    LET i == ThreadIndex(t_HEAD, tid)
        signal_to_forward == IF i = 0 THEN 0 ELSE t_HEAD[i].signal_to_forward
    IN  /\ WorldStopped
        /\ \E flushed \in {FlushRegs(K, t_HEAD)} :
              /\ SetK(IF Stopped(flushed, tid)
                      THEN [flushed EXCEPT !.run[tid] = "stepping", !.status[tid] = 0]
                      ELSE flushed)
              /\ last' = Call("singlestep", tid, 0, IF Stopped(flushed, tid) THEN 0 ELSE -1)
              /\ klog' = Append(FlushLog(K, t_HEAD),
                                Req("SINGLESTEP", tid, signal_to_forward, flushed))
        /\ t_HEAD' = ClearSignals(t_HEAD)
        /\ UNCHANGED <<dead_t_HEAD, sw_b_HEAD, hw_b_HEAD, handle_syscall_enabled,
                       debugVars, snap>>
        /\ in_stop_window' = FALSE

\* singlestep, x86_64
singlestep(tid) ==
    LET i == ThreadIndex(t_HEAD, tid)
        signal_to_forward == IF i = 0 THEN 0 ELSE t_HEAD[i].signal_to_forward
    IN  /\ WorldStopped
        /\ \E flushed \in {FlushRegs(K, t_HEAD)} :
              /\ SetK(IF Stopped(flushed, tid)
                      THEN [flushed EXCEPT !.run[tid] = "stepping", !.status[tid] = 0]
                      ELSE flushed)
              /\ last' = Call("singlestep", tid, 0, IF Stopped(flushed, tid) THEN 0 ELSE -1)
              /\ klog' = Append(FlushLog(K, t_HEAD),
                                Req("SINGLESTEP", tid, signal_to_forward, flushed))
        /\ t_HEAD' = [j \in 1..Len(t_HEAD) |->
                        IF t_HEAD[j].tid = tid
                        THEN [t_HEAD[j] EXCEPT !.signal_to_forward = 0]
                        ELSE t_HEAD[j]]
        /\ UNCHANGED <<dead_t_HEAD, sw_b_HEAD, hw_b_HEAD, handle_syscall_enabled,
                       debugVars, snap>>
        /\ in_stop_window' = FALSE

\* the number of loop iterations after which a stepping loop is taken not to return
StepFuel == 6

\* the targets and step bounds the caller gives step_until
StepTargets == {0}
StepBounds == {-1, 1}

\* a turn whose loop test lets count reach max_steps before it leaves
step_until_turn_inclusive(st, tid, addr, max_steps) ==
    LET s == StepAndWait(st.k, tid)
        previous_ip == INSTRUCTION_POINTER(st.regs)
        new_regs == s.k.regs[tid]
        new_log == Append(st.log, Req("SINGLESTEP", tid, 0, st.k))
    IN  IF ~(max_steps = -1 \/ st.count <= max_steps)
        THEN [st EXCEPT !.exit = "bound"]
        ELSE IF ~Stopped(st.k, tid)
        THEN [st EXCEPT !.exit = "error", !.log = new_log]
        ELSE IF INSTRUCTION_POINTER(new_regs) = addr
        THEN [k |-> s.k, regs |-> new_regs, count |-> st.count, log |-> new_log,
              exit |-> "target"]
        ELSE IF INSTRUCTION_POINTER(new_regs) = previous_ip
        THEN [k |-> s.k, regs |-> new_regs, count |-> st.count, log |-> new_log, exit |-> ""]
        ELSE [k |-> s.k, regs |-> new_regs, count |-> st.count + 1, log |-> new_log,
              exit |-> ""]

\* step_until, lines 824-842: one turn of the loop; st holds the kernel state,
\* the stepping thread's cached registers, count and the requests so far, and
\* exit says how the loop was left ("" while it goes on)
step_until_turn(st, tid, addr, max_steps) ==
    LET s == StepAndWait(st.k, tid)
        previous_ip == INSTRUCTION_POINTER(st.regs)
        new_regs == s.k.regs[tid]
        new_log == Append(st.log, Req("SINGLESTEP", tid, 0, st.k))
    IN  IF ~(max_steps = -1 \/ st.count < max_steps)
        THEN [st EXCEPT !.exit = "bound"]
        ELSE IF ~Stopped(st.k, tid)
        THEN [st EXCEPT !.exit = "error", !.log = new_log]
        ELSE IF INSTRUCTION_POINTER(new_regs) = addr
        THEN [k |-> s.k, regs |-> new_regs, count |-> st.count, log |-> new_log,
              exit |-> "target"]
        ELSE IF INSTRUCTION_POINTER(new_regs) = previous_ip
        THEN [k |-> s.k, regs |-> new_regs, count |-> st.count, log |-> new_log, exit |-> ""]
        ELSE [k |-> s.k, regs |-> new_regs, count |-> st.count + 1, log |-> new_log,
              exit |-> ""]

RECURSIVE step_until_loop(_, _, _, _, _)
step_until_loop(st, tid, addr, max_steps, fuel) ==
    IF st.exit # ""
    THEN st
    ELSE IF fuel = 0
    THEN [st EXCEPT !.exit = "never"]
    ELSE CHOOSE r \in {step_until_loop(n, tid, addr, max_steps, fuel - 1) :
                          n \in {step_until_turn(st, tid, addr, max_steps)}} : TRUE

SetRegs(T, i, regs) == [T EXCEPT ![i].regs = regs]

step_until(tid, addr, max_steps) ==
    LET i == ThreadIndex(t_HEAD, tid)
        start == [k |-> FlushRegs(K, t_HEAD), regs |-> t_HEAD[i].regs, count |-> 0,
                  log |-> FlushLog(K, t_HEAD), exit |-> ""]
    IN  /\ WorldStopped
        /\ IF i = 0
           THEN /\ SetK(FlushRegs(K, t_HEAD))
                /\ last' = Call("step_until", tid, addr, -1)
                /\ klog' = FlushLog(K, t_HEAD)
                /\ UNCHANGED t_HEAD
           ELSE \E r \in {step_until_loop(start, tid, addr, max_steps, StepFuel + 1)} :
                /\ r.exit # "never"
                /\ SetK(r.k)
                /\ t_HEAD' = SetRegs(t_HEAD, i, r.regs)
                /\ last' = Call("step_until", tid, addr, IF r.exit = "error" THEN -1 ELSE 0)
                /\ klog' = r.log
        /\ UNCHANGED <<dead_t_HEAD, sw_b_HEAD, hw_b_HEAD, handle_syscall_enabled,
                       debugVars, snap>>
        /\ in_stop_window' = FALSE

\* stepping_finish, lines 1187-1216: one turn of the do-while loop; st holds the
\* kernel state, the stepping thread's cached registers, nested_call_counter and
\* the requests so far, and exit says how the loop was left ("" while it goes on)
stepping_finish_turn(st, tid) ==
    LET s == StepAndWait(st.k, tid)
        previous_ip == INSTRUCTION_POINTER(st.regs)
        new_regs == s.k.regs[tid]
        current_ip == INSTRUCTION_POINTER(new_regs)
        opcode_window == PeekData(s.k.mem, current_ip)
        first_opcode_byte == opcode_window[1]
        counter == IF IS_CALL_INSTRUCTION(opcode_window)
                   THEN st.nested_call_counter + 1
                   ELSE IF IS_RET_INSTRUCTION(first_opcode_byte)
                   THEN st.nested_call_counter - 1
                   ELSE st.nested_call_counter
        new_log == Append(st.log, Req("SINGLESTEP", tid, 0, st.k))
    IN  IF ~Stopped(st.k, tid)
        THEN [st EXCEPT !.exit = "error", !.log = new_log]
        ELSE IF current_ip = previous_ip \/ IS_SW_BREAKPOINT(first_opcode_byte)
        THEN [k |-> s.k, regs |-> new_regs, nested_call_counter |-> st.nested_call_counter,
              log |-> new_log, exit |-> "cleanup"]
        ELSE [k |-> s.k, regs |-> new_regs, nested_call_counter |-> counter,
              log |-> new_log, exit |-> IF counter > 0 THEN "" ELSE "done"]

RECURSIVE stepping_finish_loop(_, _, _)
stepping_finish_loop(st, tid, fuel) ==
    IF st.exit # ""
    THEN st
    ELSE IF fuel = 0
    THEN [st EXCEPT !.exit = "never"]
    ELSE CHOOSE r \in {stepping_finish_loop(n, tid, fuel - 1) :
                          n \in {stepping_finish_turn(st, tid)}} : TRUE

\* stepping_finish, lines 1218-1237: the last step out of the return instruction,
\* and the cleanup that restores the code
stepping_finish_end(r, tid, B) ==
    LET s == StepAndWait(r.k, tid)
        request == Req("SINGLESTEP", tid, 0, r.k)
        clean(k) == [k EXCEPT !.mem = WriteBreakpoints(k.mem, B, 1, FALSE)]
    IN  IF r.exit = "error"
        THEN [k |-> r.k, regs |-> r.regs, log |-> r.log, ret |-> -1]
        ELSE IF r.exit = "cleanup"
        THEN [k |-> clean(r.k), regs |-> r.regs, log |-> r.log, ret |-> 0]
        ELSE IF ~Stopped(r.k, tid)
        THEN [k |-> r.k, regs |-> r.regs, log |-> Append(r.log, request), ret |-> -1]
        ELSE [k |-> clean(s.k), regs |-> s.k.regs[tid], log |-> Append(r.log, request),
              ret |-> 0]

stepping_finish(tid) ==
    LET i == ThreadIndex(t_HEAD, tid)
    IN  /\ WorldStopped
        /\ \E p \in {prepare_for_run(K, t_HEAD, sw_b_HEAD)} :
           IF i = 0
           THEN /\ SetK(p.k)
                /\ last' = Call("stepping_finish", tid, 0, -1)
                /\ klog' = p.log
                /\ UNCHANGED t_HEAD
           ELSE \E r \in {stepping_finish_loop(
                              [k |-> p.k, regs |-> t_HEAD[i].regs, nested_call_counter |-> 1,
                               log |-> p.log, exit |-> ""], tid, StepFuel)} :
                /\ r.exit # "never"
                /\ \E e \in {stepping_finish_end(r, tid, sw_b_HEAD)} :
                      /\ SetK(e.k)
                      /\ t_HEAD' = SetRegs(t_HEAD, i, e.regs)
                      /\ last' = Call("stepping_finish", tid, 0, e.ret)
                      /\ klog' = e.log
        /\ UNCHANGED <<dead_t_HEAD, sw_b_HEAD, hw_b_HEAD, handle_syscall_enabled,
                       debugVars, snap>>
        /\ in_stop_window' = FALSE

\* the outcomes of tgkill(SIGSTOP) and waitpid on a thread found running: the
\* SIGSTOP stops it, or it stops on its own first and the SIGSTOP stays queued
Races == {"sigstop", "own_trap", "own_signal"}

RacePossible(k, tid, race) ==
    race = "own_trap" =>
        (k.run[tid] = "stepping" \/ k.mem[k.regs[tid].ip] = OP_INT3)

RaceStatus(race) ==
    IF race = "sigstop" THEN SIGSTOP_STATUS
    ELSE IF race = "own_trap" THEN SIGTRAP_STATUS
    ELSE SIGUSR1_STATUS

\* the elements of a set of thread ids as a sequence, ascending
RECURSIVE SetToSeq(_)
SetToSeq(S) == IF S = {} THEN <<>> ELSE <<Min(S)>> \o SetToSeq(S \ {Min(S)})

StatusesOf(tids, status) ==
    [i \in 1..Len(tids) |-> [tid |-> tids[i], status |-> status[tids[i]]]]

Reverse(s) == [i \in 1..Len(s) |-> s[Len(s) + 1 - i]]

\* the tids of the entries of T that are in S, in list order
SelectSeqTids(T, S) ==
    LET keep(t) == t.tid \in S
        kept == SelectSeq(T, keep)
    IN  [i \in 1..Len(kept) |-> kept[i].tid]

\* a wait that leaves the other threads as it finds them
interrupt_none(k, T, head, race) == k

\* wait_all_and_update_regs, lines 984-1006: every live thread other than the
\* first one reported that GETREGS finds running is sent SIGSTOP and waited for
interrupt_others(k, T, head, race) ==
    LET running(t) == ThreadIndex(T, t) # 0 /\ t # head /\ ~Stopped(k, t)
    IN  [k EXCEPT
            !.regs = [t \in Tids |->
                IF running(t) /\ race[t] = "own_trap" THEN Exec(k, t).regs[t] ELSE k.regs[t]],
            !.stack = [t \in Tids |->
                IF running(t) /\ race[t] = "own_trap" THEN Exec(k, t).stack[t] ELSE k.stack[t]],
            !.run = [t \in Tids |-> IF running(t) THEN "stopped" ELSE k.run[t]],
            !.sigstop = [t \in Tids |->
                IF running(t) THEN race[t] # "sigstop" ELSE k.sigstop[t]]]

wait_all_and_update_regs(head, race) ==
    LET \* the live threads other than the first one reported that GETREGS finds running
        running(t) == ThreadIndex(t_HEAD, t) # 0 /\ t # head /\ ~Stopped(K, t)
        stopped_ones == SelectSeqTids(t_HEAD, {t \in Tids : running(t)})
        after_stop == interrupt_others(K, t_HEAD, head, race)
        stop_status == [t \in Tids |-> RaceStatus(race[t])]
        \* the statuses the WNOHANG loop finds
        ready(t) == t # head /\ ~running(t) /\ kstatus[t] # 0
        drained == SetToSeq({t \in Tids : ready(t)})
        list == Reverse(<<[tid |-> head, status |-> kstatus[head]]>>
                        \o StatusesOf(stopped_ones, stop_status)
                        \o StatusesOf(drained, kstatus))
        reaped == [after_stop EXCEPT !.status = [t \in Tids |-> 0]]
        refreshed == [i \in 1..Len(t_HEAD) |->
                        IF Stopped(reaped, t_HEAD[i].tid)
                        THEN [t_HEAD[i] EXCEPT !.regs = reaped.regs[t_HEAD[i].tid]]
                        ELSE t_HEAD[i]]
    IN  /\ kstatus[head] # 0
        /\ \A t \in Tids : IF running(t) THEN RacePossible(K, t, race[t]) ELSE race[t] = "sigstop"
        /\ SetK([reaped EXCEPT !.mem = WriteBreakpoints(mem, sw_b_HEAD, 1, FALSE)])
        /\ t_HEAD' = refreshed
        /\ last' = Call("wait_all_and_update_regs", Pid, 0, list)
        /\ klog' = <<>>
        /\ UNCHANGED <<dead_t_HEAD, sw_b_HEAD, hw_b_HEAD, handle_syscall_enabled,
                       debugVars, snap>>
        /\ in_stop_window' = TRUE

(***************************************************************************)
(* Detaching                                                               *)
(***************************************************************************)

\* a thread the debugger has detached from; it runs, or stays stopped by a
\* queued SIGSTOP, outside the debugger's control
Detached(k, tid) == k.run[tid] = "detached"

NoneDetached == \A t \in Tids : ~Detached(K, t)

\* ptrace_detach_for_migration, lines 617-639, for one live thread: SETREGS
\* of the cached registers; when it fails the thread is sent SIGSTOP, waited
\* for and written again; then a SIGSTOP is queued and the thread is detached
detach_thread(st, t, race) ==
    LET tid == t.tid
        first == Req("SETREGS", tid, t.regs, st.k)
        halted == IF Stopped(st.k, tid) THEN st.k
                  ELSE [st.k EXCEPT
                          !.regs[tid] = IF race[tid] = "own_trap"
                                        THEN Exec(st.k, tid).regs[tid] ELSE @,
                          !.stack[tid] = IF race[tid] = "own_trap"
                                         THEN Exec(st.k, tid).stack[tid] ELSE @,
                          !.run[tid] = "stopped"]
        again == IF Stopped(st.k, tid) THEN <<>>
                 ELSE <<Req("SETREGS", tid, t.regs, halted)>>
        written == [halted EXCEPT !.regs[tid] = t.regs]
        gone == [written EXCEPT !.sigstop[tid] = TRUE, !.status[tid] = 0,
                                !.run[tid] = "detached"]
    IN  [k |-> gone,
         log |-> st.log \o <<first>> \o again \o <<Req("DETACH", tid, 0, written)>>]

\* the walk of lines 614-640 over the live list, head first
RECURSIVE detach_walk(_, _, _, _)
detach_walk(st, T, i, race) ==
    IF i > Len(T) THEN st
    ELSE CHOOSE r \in {detach_walk(n, T, i + 1, race) :
                         n \in {detach_thread(st, T[i], race)}} : TRUE

\* ptrace_detach_and_cont, lines 660-666: ptrace_detach_for_migration, which
\* is the walk, then SIGCONT to the process, which discards the SIGSTOPs
\* queued for its threads
ptrace_detach_and_cont(pid, race) ==
    /\ NoneDetached
    /\ \A t \in Tids : IF ThreadIndex(t_HEAD, t) # 0 /\ ~Stopped(K, t)
                       THEN RacePossible(K, t, race[t]) ELSE race[t] = "sigstop"
    /\ \E r \in {detach_walk([k |-> K, log |-> <<>>], t_HEAD, 1, race)} :
          /\ SetK([r.k EXCEPT !.sigstop = [t \in Tids |->
                                 IF Detached(r.k, t) THEN FALSE ELSE r.k.sigstop[t]]])
          /\ klog' = r.log
    /\ last' = Call("ptrace_detach_and_cont", pid, 0, 0)
    /\ in_stop_window' = FALSE
    /\ UNCHANGED <<globalVars, debugVars, snap>>

(***************************************************************************)
(* The tracee's own steps                                                  *)
(***************************************************************************)

\* a resumed thread takes a queued SIGSTOP, or runs one instruction; a trap
\* instruction and the end of a single-step stop it with SIGTRAP
TraceeStep(tid) ==
    LET trapped == mem[kregs[tid].ip] = OP_INT3 \/ krun[tid] = "stepping"
        k == Exec(K, tid)
    IN  /\ krun[tid] # "stopped"
        /\ IF ksigstop[tid]
           THEN SetK([K EXCEPT !.run[tid] = "stopped", !.status[tid] = SIGSTOP_STATUS,
                               !.sigstop[tid] = FALSE])
           ELSE IF trapped
           THEN SetK([k EXCEPT !.run[tid] = "stopped", !.status[tid] = SIGTRAP_STATUS])
           ELSE SetK(k)
        /\ UNCHANGED <<globalVars, debugVars, last, klog, snap,
                       in_stop_window>>

\* a resumed thread is stopped by a signal sent to it from outside
TraceeSignal(tid) ==
    /\ krun[tid] # "stopped"
    /\ SetK([K EXCEPT !.run[tid] = "stopped", !.status[tid] = SIGUSR1_STATUS])
    /\ UNCHANGED <<globalVars, debugVars, last, klog, snap,
                   in_stop_window>>

\* the wait status of a thread that has exited with code 1
EXIT_STATUS == 256

\* a thread that is not in ptrace-stop ends by itself; the tracer finds its
\* exit status, and no ptrace request on it succeeds any more
TraceeExit(tid) ==
    /\ krun[tid] = "running"
    /\ SetK([K EXCEPT !.run[tid] = "exited", !.status[tid] = EXIT_STATUS])
    /\ UNCHANGED <<globalVars, debugVars, last, klog, snap,
                   in_stop_window>>

\* a detached thread that no SIGSTOP holds runs one instruction; a trap
\* instruction raises SIGTRAP, which no debugger takes and which ends it
TraceeFree(tid) ==
    /\ Detached(K, tid)
    /\ ~ksigstop[tid]
    /\ IF mem[kregs[tid].ip] = OP_INT3
       THEN SetK([K EXCEPT !.run[tid] = "killed"])
       ELSE SetK([Exec(K, tid) EXCEPT !.run[tid] = "detached"])
    /\ UNCHANGED <<globalVars, debugVars, last, klog, snap,
                   in_stop_window>>

(***************************************************************************)
(* Hardware breakpoints, x86_64                                            *)
(***************************************************************************)

\* the (address, type, length) requests the caller makes
HwAddrs == {1, 2, 3, 4, 5}
HwRequests == {<<1, <<"x", "">>, 1>>, <<2, <<"w", "">>, 2>>, <<3, <<"r", "w">>, 8>>,
               <<4, <<"w", "">>, 4>>, <<5, <<"x", "">>, 1>>}

\* the threads hardware breakpoints are requested on
HwTids == {1}

\* the addresses whose breakpoint the caller enables and disables
HwToggleAddrs == {1}

\* the bits of the 2-bit value v placed at bit position shift (v << shift)
Field(v, shift) ==
    (IF v % 2 = 1 THEN {shift} ELSE {}) \cup (IF v \div 2 = 1 THEN {shift + 1} ELSE {})

CTRL_LOCAL(x) == {2 * x}
CTRL_COND(x) == 16 + (4 * x)
CTRL_COND_VAL(x) == IF x = "x" THEN 0 ELSE (IF x = "w" THEN 1 ELSE 3)
CTRL_LEN(x) == 18 + (4 * x)
CTRL_LEN_VAL(x) == IF x = 1 THEN 0 ELSE (IF x = 2 THEN 1 ELSE (IF x = 8 THEN 2 ELSE 3))

\* the first i in 0..3 whose debug register holds value, 4 when there is none:
\* the scan loops over DR0..DR3
ScanSlots(regs, value) ==
    IF \E i \in 0..(NumDebugRegs - 1) : regs[i] = value
    THEN Min({i \in 0..(NumDebugRegs - 1) : regs[i] = value})
    ELSE NumDebugRegs

\* install_hardware_breakpoint: the debug registers <<dr, dr7>> it leaves
install_hardware_breakpoint(d, d7, bp) ==
    LET i == ScanSlots(d[bp.tid], 0)
        ctrl == CTRL_LOCAL(i)
                  \cup Field(CTRL_COND_VAL(bp.type[1]), CTRL_COND(i))
                  \cup Field(CTRL_LEN_VAL(bp.len), CTRL_LEN(i))
        state == ((d7[bp.tid] \ Field(3, CTRL_COND(i))) \ Field(3, CTRL_LEN(i))) \cup ctrl
    IN  IF i = NumDebugRegs
        THEN <<d, d7>>
        ELSE <<[d EXCEPT ![bp.tid][i] = bp.addr], [d7 EXCEPT ![bp.tid] = state]>>

\* remove_hardware_breakpoint: the debug registers <<dr, dr7>> it leaves
remove_hardware_breakpoint(d, d7, bp) ==
    LET i == ScanSlots(d[bp.tid], bp.addr)
        state == (d7[bp.tid] \ Field(3, CTRL_COND(i))) \ Field(3, CTRL_LEN(i))
    IN  IF i = NumDebugRegs
        THEN <<d, d7>>
        ELSE <<[d EXCEPT ![bp.tid][i] = 0], [d7 EXCEPT ![bp.tid] = state]>>

\* get_remaining_hw_breakpoint_count
get_remaining_hw_breakpoint_count(tid) ==
    NumDebugRegs - ScanSlots(dr[tid], 0)

HwMatch(b, tid, address) == b.addr = address /\ b.tid = tid

HwIndex(tid, address) ==
    FirstIndex(hw_b_HEAD, {i \in 1..Len(hw_b_HEAD) : HwMatch(hw_b_HEAD[i], tid, address)})

register_hw_breakpoint(tid, address, type, len) ==
    LET b == [addr |-> address, tid |-> tid, enabled |-> TRUE, type |-> type, len |-> len]
        res == install_hardware_breakpoint(dr, dr7, b)
    IN  /\ last' = Call("register_hw_breakpoint", tid, address, 0)
        /\ IF HwIndex(tid, address) # 0
           THEN /\ UNCHANGED <<hw_b_HEAD, dr, dr7>>
                /\ snap' = NoSnap
           ELSE /\ hw_b_HEAD' = <<b>> \o hw_b_HEAD
                /\ dr' = res[1]
                /\ dr7' = res[2]
                /\ snap' = [valid |-> TRUE, tid |-> tid, addr |-> address,
                            dr |-> dr[tid], dr7 |-> dr7[tid], done |-> FALSE]
        /\ klog' = <<>>
        /\ UNCHANGED <<t_HEAD, dead_t_HEAD, sw_b_HEAD, handle_syscall_enabled, kernelVars,
                   in_stop_window>>

unregister_hw_breakpoint(tid, address) ==
    LET i == HwIndex(tid, address)
        res == remove_hardware_breakpoint(dr, dr7, hw_b_HEAD[i])
    IN  /\ last' = Call("unregister_hw_breakpoint", tid, address, 0)
        /\ IF i = 0
           THEN UNCHANGED <<hw_b_HEAD, dr, dr7>>
           ELSE /\ hw_b_HEAD' = RemoveAt(hw_b_HEAD, i)
                /\ IF hw_b_HEAD[i].enabled
                   THEN dr' = res[1] /\ dr7' = res[2]
                   ELSE UNCHANGED <<dr, dr7>>
        /\ snap' = IF snap.valid /\ ~snap.done /\ snap.tid = tid /\ snap.addr = address
                   THEN [snap EXCEPT !.done = TRUE]
                   ELSE NoSnap
        /\ klog' = <<>>
        /\ UNCHANGED <<t_HEAD, dead_t_HEAD, sw_b_HEAD, handle_syscall_enabled, kernelVars,
                   in_stop_window>>

enable_hw_breakpoint(tid, address) ==
    LET i == HwIndex(tid, address)
        res == install_hardware_breakpoint(dr, dr7, hw_b_HEAD[i])
    IN  /\ last' = Call("enable_hw_breakpoint", tid, address, 0)
        /\ IF i = 0
           THEN UNCHANGED <<hw_b_HEAD, dr, dr7>>
           ELSE /\ hw_b_HEAD' = [hw_b_HEAD EXCEPT ![i].enabled = TRUE]
                /\ IF ~hw_b_HEAD[i].enabled
                   THEN dr' = res[1] /\ dr7' = res[2]
                   ELSE UNCHANGED <<dr, dr7>>
        /\ snap' = NoSnap
        /\ klog' = <<>>
        /\ UNCHANGED <<t_HEAD, dead_t_HEAD, sw_b_HEAD, handle_syscall_enabled, kernelVars,
                   in_stop_window>>

disable_hw_breakpoint(tid, address) ==
    LET i == HwIndex(tid, address)
        res == remove_hardware_breakpoint(dr, dr7, hw_b_HEAD[i])
    IN  /\ last' = Call("disable_hw_breakpoint", tid, address, 0)
        /\ IF i = 0
           THEN UNCHANGED <<hw_b_HEAD, dr, dr7>>
           ELSE /\ hw_b_HEAD' = [hw_b_HEAD EXCEPT ![i].enabled = FALSE]
                /\ IF hw_b_HEAD[i].enabled
                   THEN dr' = res[1] /\ dr7' = res[2]
                   ELSE UNCHANGED <<dr, dr7>>
        /\ snap' = NoSnap
        /\ klog' = <<>>
        /\ UNCHANGED <<t_HEAD, dead_t_HEAD, sw_b_HEAD, handle_syscall_enabled, kernelVars,
                   in_stop_window>>

(***************************************************************************)
(* Initial state: the tracee is attached and stopped, nothing registered   *)
(***************************************************************************)

Init ==
    /\ t_HEAD = <<>>
    /\ dead_t_HEAD = <<>>
    /\ sw_b_HEAD = <<>>
    /\ hw_b_HEAD = <<>>
    /\ handle_syscall_enabled = FALSE
    /\ mem = Program
    /\ kregs = [t \in Tids |-> [ip |-> 0]]
    /\ krun = [t \in Tids |-> "stopped"]
    /\ kstatus = [t \in Tids |-> 0]
    /\ ksigstop = [t \in Tids |-> FALSE]
    /\ kstack = [t \in Tids |-> <<>>]
    /\ dr = [t \in Tids |-> [i \in 0..(NumDebugRegs - 1) |-> 0]]
    /\ dr7 = [t \in Tids |-> {}]
    /\ last = Call("init", 0, 0, 0)
    /\ klog = <<>>
    /\ snap = NoSnap
    /\ in_stop_window = FALSE

(***************************************************************************)
(* SpecHw: the hardware-breakpoint entry points on stopped threads         *)
(***************************************************************************)

NextHw ==
    \/ \E tid \in HwTids, r \in HwRequests : register_hw_breakpoint(tid, r[1], r[2], r[3])
    \/ \E tid \in HwTids, a \in HwAddrs : unregister_hw_breakpoint(tid, a)
    \/ \E tid \in HwTids, a \in HwToggleAddrs : enable_hw_breakpoint(tid, a)
    \/ \E tid \in HwTids, a \in HwToggleAddrs : disable_hw_breakpoint(tid, a)

SpecHw == Init /\ [][NextHw]_vars

(***************************************************************************)
(* Spec: software breakpoints over the run / stop cycle of a tracee with   *)
(* one registered thread.  The caller resumes and changes the tables only  *)
(* while the tracee is stopped.                                            *)
(***************************************************************************)

InitBp ==
    /\ t_HEAD = <<[tid |-> 1, regs |-> [ip |-> 0], signal_to_forward |-> 0, obj |-> 1]>>
    /\ dead_t_HEAD = <<>>
    /\ sw_b_HEAD = <<>>
    /\ hw_b_HEAD = <<>>
    /\ handle_syscall_enabled = FALSE
    /\ mem = Program
    /\ kregs = [t \in Tids |-> [ip |-> 0]]
    /\ krun = [t \in Tids |-> "stopped"]
    /\ kstatus = [t \in Tids |-> 0]
    /\ ksigstop = [t \in Tids |-> FALSE]
    /\ kstack = [t \in Tids |-> <<>>]
    /\ dr = [t \in Tids |-> [i \in 0..(NumDebugRegs - 1) |-> 0]]
    /\ dr7 = [t \in Tids |-> {}]
    /\ last = Call("init", 0, 0, 0)
    /\ klog = <<>>
    /\ snap = NoSnap
    /\ in_stop_window = FALSE

Next ==
    \/ \E a \in BpAddrs : register_breakpoint(Pid, a)
    \/ \E a \in BpAddrs : unregister_breakpoint(a)
    \/ \E a \in BpAddrs : enable_breakpoint(a)
    \/ \E a \in BpAddrs : disable_breakpoint(a)
    \/ \E ip \in CallerIps : WorldStopped /\ CallerSetIp(1, ip)
    \/ \E sig \in Signals : WorldStopped /\ CallerSetSignal(1, sig)
    \/ cont_all_and_set_bps
    \/ \E race \in [Tids -> Races] : wait_all_and_update_regs(1, race)
    \/ TraceeStep(1)
    \/ TraceeSignal(1)

Spec == InitBp /\ [][Next]_vars

(***************************************************************************)
(* SpecRun: the resume entry points and the wait on a tracee with two      *)
(* registered threads and at most one software breakpoint.                 *)
(***************************************************************************)

InitRun ==
    /\ t_HEAD = <<[tid |-> 2, regs |-> [ip |-> 0], signal_to_forward |-> 0, obj |-> 2],
                  [tid |-> 1, regs |-> [ip |-> 0], signal_to_forward |-> 0, obj |-> 1]>>
    /\ dead_t_HEAD = <<>>
    /\ sw_b_HEAD = <<>>
    /\ hw_b_HEAD = <<>>
    /\ handle_syscall_enabled \in BOOLEAN
    /\ mem = Program
    /\ kregs = [t \in Tids |-> [ip |-> 0]]
    /\ krun = [t \in Tids |-> "stopped"]
    /\ kstatus = [t \in Tids |-> 0]
    /\ ksigstop = [t \in Tids |-> FALSE]
    /\ kstack = [t \in Tids |-> <<>>]
    /\ dr = [t \in Tids |-> [i \in 0..(NumDebugRegs - 1) |-> 0]]
    /\ dr7 = [t \in Tids |-> {}]
    /\ last = Call("init", 0, 0, 0)
    /\ klog = <<>>
    /\ snap = NoSnap
    /\ in_stop_window = FALSE

NextRun ==
    \/ \E a \in RunBpAddrs : register_breakpoint(Pid, a)
    \/ \E tid \in Tids, ip \in CallerIps : WorldStopped /\ CallerSetIp(tid, ip)
    \/ cont_all_and_set_bps
    \/ prepare_for_run_call
    \/ \E tid \in Tids : singlestep(tid)
    \/ \E tid \in Tids, a \in StepTargets, n \in StepBounds : step_until(tid, a, n)
    \/ \E tid \in Tids : stepping_finish(tid)
    \/ \E head \in Tids, race \in [Tids -> Races] : wait_all_and_update_regs(head, race)
    \/ \E tid \in Tids : TraceeStep(tid)

SpecRun == InitRun /\ [][NextRun]_vars

(***************************************************************************)
(* SpecThr: the thread table, on a stopped tracee                          *)
(***************************************************************************)

NextThr ==
    \/ \E tid \in Tids : \E regs \in RegsRead(tid) : register_thread(tid, regs)
    \/ \E tid \in Tids : unregister_thread(tid)
    \/ free_thread_list
    \/ \E tid \in Tids, ip \in CallerIps : CallerSetIp(tid, ip)
    \/ \E tid \in Tids, sig \in Signals : CallerSetSignal(tid, sig)

SpecThr == Init /\ [][NextThr]_vars

(***************************************************************************)
(* SpecLife: threads come and go between runs, and the debugger detaches   *)
(***************************************************************************)

\* the threads that are registered and unregistered between runs
LifeTids == {1}

\* the address of the breakpoint the debugger has registered before
LifeBpAddr == 1

\* the tracee has one thread, registered and stopped at the entry point, and
\* register_breakpoint(Pid, LifeBpAddr) has run
InitLife ==
    /\ t_HEAD = <<[tid |-> 1, regs |-> [ip |-> 0], signal_to_forward |-> 0, obj |-> 1]>>
    /\ dead_t_HEAD = <<>>
    /\ sw_b_HEAD = <<[addr |-> LifeBpAddr,
                      instruction |-> PeekData(Program, LifeBpAddr),
                      patched_instruction |->
                          INSTALL_BREAKPOINT(PeekData(Program, LifeBpAddr)),
                      enabled |-> TRUE]>>
    /\ hw_b_HEAD = <<>>
    /\ handle_syscall_enabled = FALSE
    /\ mem = PokeData(Program, LifeBpAddr,
                      INSTALL_BREAKPOINT(PeekData(Program, LifeBpAddr)))
    /\ kregs = [t \in Tids |-> [ip |-> 0]]
    /\ krun = [t \in Tids |-> "stopped"]
    /\ kstatus = [t \in Tids |-> 0]
    /\ ksigstop = [t \in Tids |-> FALSE]
    /\ kstack = [t \in Tids |-> <<>>]
    /\ dr = [t \in Tids |-> [i \in 0..(NumDebugRegs - 1) |-> 0]]
    /\ dr7 = [t \in Tids |-> {}]
    /\ last = Call("register_breakpoint", Pid, LifeBpAddr, 0)
    /\ klog = <<>>
    /\ snap = NoSnap
    /\ in_stop_window = FALSE

NextLife ==
    \/ \E tid \in LifeTids : \E regs \in RegsRead(tid) :
          WorldStopped /\ register_thread(tid, regs)
    \/ \E tid \in LifeTids : WorldStopped /\ unregister_thread(tid)
    \/ free_thread_list
    \/ \E tid \in LifeTids, ip \in CallerIps : WorldStopped /\ CallerSetIp(tid, ip)
    \/ cont_all_and_set_bps
    \/ \E tid \in LifeTids : singlestep(tid)
    \/ \E tid \in LifeTids, a \in StepTargets, n \in StepBounds : step_until(tid, a, n)
    \/ \E tid \in LifeTids : stepping_finish(tid)
    \/ \E head \in Tids, race \in [Tids -> Races] :
          NoneDetached /\ wait_all_and_update_regs(head, race)
    \/ \E tid \in Tids : krun[tid] \in {"running", "stepping"} /\ TraceeStep(tid)
    \/ \E race \in [Tids -> Races] : ptrace_detach_and_cont(Pid, race)

SpecLife == InitLife /\ [][NextLife]_vars

(***************************************************************************)
(* SpecPatch: breakpoints registered over arbitrary code                   *)
(***************************************************************************)

\* the values of the code bytes that breakpoint words are read from
PatchBytes == {0, OP_NOP, OP_INT3, 255}

\* the addresses of the code bytes that vary
PatchAddrs == {0, 1, 2}

InitPatch ==
    /\ t_HEAD = <<[tid |-> 1, regs |-> [ip |-> 0], signal_to_forward |-> 0, obj |-> 1]>>
    /\ dead_t_HEAD = <<>>
    /\ sw_b_HEAD = <<>>
    /\ hw_b_HEAD = <<>>
    /\ handle_syscall_enabled = FALSE
    /\ mem \in {[a \in MemAddrs |-> IF a \in PatchAddrs THEN f[a] ELSE Program[a]] :
                  f \in [PatchAddrs -> PatchBytes]}
    /\ kregs = [t \in Tids |-> [ip |-> 0]]
    /\ krun = [t \in Tids |-> "stopped"]
    /\ kstatus = [t \in Tids |-> 0]
    /\ ksigstop = [t \in Tids |-> FALSE]
    /\ kstack = [t \in Tids |-> <<>>]
    /\ dr = [t \in Tids |-> [i \in 0..(NumDebugRegs - 1) |-> 0]]
    /\ dr7 = [t \in Tids |-> {}]
    /\ last = Call("init", 0, 0, 0)
    /\ klog = <<>>
    /\ snap = NoSnap
    /\ in_stop_window = FALSE

NextPatch ==
    \/ \E a \in BpAddrs : register_breakpoint(Pid, a)
    \/ \E a \in BpAddrs : unregister_breakpoint(a)

SpecPatch == InitPatch /\ [][NextPatch]_vars

(***************************************************************************)
(* SpecStep: step_until with a bound, between runs of one thread           *)
(***************************************************************************)

\* the max_steps arguments that are bounds
StepLimits == {0, 1, 2}

\* the addresses stepped to: one the thread comes by, one it never reaches
StepUntilTargets == {0, 3}

NextStep ==
    \/ \E a \in RunBpAddrs : register_breakpoint(Pid, a)
    \/ \E ip \in CallerIps : WorldStopped /\ CallerSetIp(1, ip)
    \/ \E tid \in Tids, a \in StepUntilTargets, n \in StepLimits : step_until(tid, a, n)
    \/ cont_all_and_set_bps
    \/ \E race \in [Tids -> Races] : wait_all_and_update_regs(1, race)
    \/ TraceeStep(1)

SpecStep == InitBp /\ [][NextStep]_vars

(***************************************************************************)
(* SpecSig: signals to forward, single-steps and waits of two threads      *)
(***************************************************************************)

InitSig ==
    /\ InitRun
    /\ handle_syscall_enabled = FALSE

NextSig ==
    \/ \E tid \in Tids, sig \in Signals : WorldStopped /\ CallerSetSignal(tid, sig)
    \/ \E tid \in Tids : singlestep(tid)
    \/ cont_all_and_set_bps
    \/ \E head \in Tids, race \in [Tids -> Races] : wait_all_and_update_regs(head, race)
    \/ \E tid \in Tids : TraceeStep(tid)
    \/ \E tid \in Tids : TraceeSignal(tid)

SpecSig == InitSig /\ [][NextSig]_vars

(***************************************************************************)
(* SpecDetach: breakpoints, runs and the detach of two threads             *)
(***************************************************************************)

NextDetach ==
    \/ \E a \in BpAddrs : register_breakpoint(Pid, a)
    \/ cont_all_and_set_bps
    \/ \E head \in Tids, race \in [Tids -> Races] :
          NoneDetached /\ wait_all_and_update_regs(head, race)
    \/ \E tid \in Tids : krun[tid] \in {"running", "stepping"} /\ TraceeStep(tid)
    \/ \E race \in [Tids -> Races] : ptrace_detach_and_cont(Pid, race)
    \/ \E tid \in Tids : TraceeFree(tid)

SpecDetach == InitSig /\ [][NextDetach]_vars

(***************************************************************************)
(* SpecErr: runs of two threads one of which may exit                      *)
(***************************************************************************)

\* the caller resumes the tracee from the initial stop and after a wait
MayResume == WorldStopped \/ in_stop_window

NextErr ==
    \/ \E a \in RunBpAddrs : register_breakpoint(Pid, a)
    \/ \E tid \in Tids, ip \in CallerIps : WorldStopped /\ CallerSetIp(tid, ip)
    \/ MayResume /\ cont_all_and_set_bps_entry
    \/ MayResume /\ prepare_for_run_entry
    \/ \E head \in Tids, race \in [Tids -> Races] :
          /\ \A t \in Tids : krun[t] = "exited" => t = head
          /\ wait_all_and_update_regs(head, race)
    \/ \E tid \in Tids : krun[tid] \in {"running", "stepping"} /\ TraceeStep(tid)
    \/ \E tid \in Tids : TraceeExit(tid)

SpecErr == InitSig /\ [][NextErr]_vars

(***************************************************************************)
(* SpecLoop: step_until request by request, over code that jumps to itself *)
(***************************************************************************)

\* nop; nop; a jump to itself
LoopBytes == <<OP_NOP, OP_NOP, OP_JMP8, 254>>
LoopProgram == [a \in MemAddrs |-> IF a < Len(LoopBytes) THEN LoopBytes[a + 1] ELSE 0]

\* where a call of step_until that has not returned is: its count, its bound
\* and the statement it is at
Turn(count, max_steps, at) == [count |-> count, max_steps |-> max_steps, at |-> at]

InStepUntil == last.op = "step_until_loop"

\* step_until, lines 805-822: the flush and the search of the thread
step_until_begin(tid, addr, max_steps) ==
    /\ WorldStopped
    /\ ~InStepUntil
    /\ SetK(FlushRegs(K, t_HEAD))
    /\ klog' = FlushLog(K, t_HEAD)
    /\ last' = IF ThreadIndex(t_HEAD, tid) = 0
               THEN Call("step_until", tid, addr, -1)
               ELSE Call("step_until_loop", tid, addr, Turn(0, max_steps, "test"))
    /\ in_stop_window' = FALSE
    /\ UNCHANGED <<globalVars, debugVars, snap>>

\* step_until, lines 824-826 and 844: the loop test, then the
\* PTRACE_SINGLESTEP request; klog holds the request of the current turn
step_until_test ==
    /\ InStepUntil
    /\ last.ret.at = "test"
    /\ IF ~(last.ret.max_steps = -1 \/ last.ret.count < last.ret.max_steps)
       THEN /\ last' = Call("step_until", last.tid, last.addr, 0)
            /\ UNCHANGED <<kernelVars, klog>>
       ELSE /\ klog' = <<Req("SINGLESTEP", last.tid, 0, K)>>
            /\ IF ~Stopped(K, last.tid)
               THEN /\ last' = Call("step_until", last.tid, last.addr, -1)
                    /\ UNCHANGED kernelVars
               ELSE /\ last' = [last EXCEPT !.ret.at = "wait"]
                    /\ SetK([K EXCEPT !.run[last.tid] = "stepping", !.status[last.tid] = 0])
    /\ UNCHANGED <<globalVars, debugVars, snap, in_stop_window>>

\* step_until, lines 829-841: waitpid, the registers read again, and the
\* three ways on: target reached, instruction pointer unchanged, step counted
step_until_wait ==
    LET i == ThreadIndex(t_HEAD, last.tid)
        previous_ip == INSTRUCTION_POINTER(t_HEAD[i].regs)
        new_regs == kregs[last.tid]
    IN  /\ InStepUntil
        /\ last.ret.at = "wait"
        /\ kstatus[last.tid] # 0
        /\ SetK([K EXCEPT !.status[last.tid] = 0])
        /\ t_HEAD' = SetRegs(t_HEAD, i, new_regs)
        /\ last' = IF INSTRUCTION_POINTER(new_regs) = last.addr
                   THEN Call("step_until", last.tid, last.addr, 0)
                   ELSE IF INSTRUCTION_POINTER(new_regs) = previous_ip
                   THEN [last EXCEPT !.ret.at = "test"]
                   ELSE [last EXCEPT !.ret.at = "test", !.ret.count = @ + 1]
        /\ UNCHANGED <<dead_t_HEAD, sw_b_HEAD, hw_b_HEAD, handle_syscall_enabled,
                       debugVars, klog, snap, in_stop_window>>

InitLoop ==
    /\ t_HEAD = <<[tid |-> 1, regs |-> [ip |-> 0], signal_to_forward |-> 0, obj |-> 1]>>
    /\ dead_t_HEAD = <<>>
    /\ sw_b_HEAD = <<>>
    /\ hw_b_HEAD = <<>>
    /\ handle_syscall_enabled = FALSE
    /\ mem = LoopProgram
    /\ kregs = [t \in Tids |-> [ip |-> 0]]
    /\ krun = [t \in Tids |-> "stopped"]
    /\ kstatus = [t \in Tids |-> 0]
    /\ ksigstop = [t \in Tids |-> FALSE]
    /\ kstack = [t \in Tids |-> <<>>]
    /\ dr = [t \in Tids |-> [i \in 0..(NumDebugRegs - 1) |-> 0]]
    /\ dr7 = [t \in Tids |-> {}]
    /\ last = Call("init", 0, 0, 0)
    /\ klog = <<>>
    /\ snap = NoSnap
    /\ in_stop_window = FALSE

NextLoop ==
    \/ \E ip \in CallerIps : WorldStopped /\ ~InStepUntil /\ CallerSetIp(1, ip)
    \/ \E tid \in Tids, a \in StepUntilTargets, n \in StepLimits : step_until_begin(tid, a, n)
    \/ step_until_test
    \/ step_until_wait
    \/ TraceeStep(1)

\* the debugger's code goes on while it can, and the kernel runs a thread
\* that has been asked to step
SpecLoopFair ==
    /\ InitLoop
    /\ [][NextLoop]_vars
    /\ WF_vars(step_until_test)
    /\ WF_vars(step_until_wait)
    /\ WF_vars(TraceeStep(1))

(***************************************************************************)
(* Properties                                                              *)
(***************************************************************************)

Enabled(B) == {i \in 1..Len(B) : B[i].enabled}

TrapAt(m, a) == IS_SW_BREAKPOINT(m[a])

\* C1: whenever wait_all_and_update_regs has returned, the tracee memory word at
\* the addr of every enabled software breakpoint equals the entry's instruction
\* (its original word).
C1_WordsRestoredAfterWait ==
    last.op = "wait_all_and_update_regs"
        => \A i \in Enabled(sw_b_HEAD) :
              PeekData(mem, sw_b_HEAD[i].addr) = sw_b_HEAD[i].instruction

\* C2, as stated: after cont_all_and_set_bps returns without error the tracee
\* memory word at the addr of every enabled software breakpoint equals the
\* entry's patched_instruction, every live thread has signal_to_forward 0, and
\* each thread was resumed with the signal_to_forward it held before the call.
C2_PatchedWordsAfterCont ==
    [][(cont_all_and_set_bps /\ last'.ret # -1)
          => /\ \A i \in Enabled(sw_b_HEAD') :
                   PeekData(mem', sw_b_HEAD'[i].addr) = sw_b_HEAD'[i].patched_instruction
             /\ \A i \in 1..Len(t_HEAD') : t_HEAD'[i].signal_to_forward = 0
             /\ \A i \in 1..Len(t_HEAD) : \E j \in 1..Len(klog') :
                   /\ klog'[j].req \in {"CONT", "SYSCALL"}
                   /\ klog'[j].tid = t_HEAD[i].tid
                   /\ klog'[j].arg = t_HEAD[i].signal_to_forward]_vars

\* the bytes of the word of the i-th breakpoint that no enabled breakpoint at a
\* higher address reaches: the offsets k with no enabled addr in (addr, addr + k]
OwnBytes(B, i) ==
    {k \in 0..(WordBytes - 1) :
        ~\E j \in Enabled(B) : B[j].addr > B[i].addr /\ B[j].addr <= B[i].addr + k}

\* C2, amended: after cont_all_and_set_bps returns without error, each byte of
\* the tracee memory word at the addr of every enabled software breakpoint equals
\* the corresponding byte of the entry's patched_instruction unless another
\* enabled breakpoint lies above addr, at or below that byte; so the low byte,
\* the trap opcode, always does.  Every live thread has signal_to_forward 0, and
\* each thread was resumed with the signal_to_forward it held before the call.
C2_TrapBytesAfterCont ==
    [][(cont_all_and_set_bps /\ last'.ret # -1)
          => /\ \A i \in Enabled(sw_b_HEAD') :
                   /\ \A k \in OwnBytes(sw_b_HEAD', i) :
                         mem'[sw_b_HEAD'[i].addr + k] = sw_b_HEAD'[i].patched_instruction[k + 1]
                   /\ 0 \in OwnBytes(sw_b_HEAD', i)
                   /\ TrapAt(mem', sw_b_HEAD'[i].addr)
             /\ \A i \in 1..Len(t_HEAD') : t_HEAD'[i].signal_to_forward = 0
             /\ \A i \in 1..Len(t_HEAD) : \E j \in 1..Len(klog') :
                   /\ klog'[j].req \in {"CONT", "SYSCALL"}
                   /\ klog'[j].tid = t_HEAD[i].tid
                   /\ klog'[j].arg = t_HEAD[i].signal_to_forward]_vars

\* cont_all_and_set_bps has returned with two enabled breakpoints whose words
\* overlap, and has forwarded a signal
C2_Witness ==
    /\ last.op = "cont_all_and_set_bps"
    /\ last.ret # -1
    /\ Len(sw_b_HEAD) = 2
    /\ Enabled(sw_b_HEAD) = {1, 2}
    /\ PeekData(mem, sw_b_HEAD[1].addr) # sw_b_HEAD[1].patched_instruction
    /\ \E j \in 1..Len(klog) : klog[j].req = "CONT" /\ klog[j].arg = SIGUSR1

\* C3: while the tracee is stopped between a wait_all_and_update_regs and the
\* next resume, whatever breakpoint calls are made in between, the code contains
\* no breakpoint trap; and while the tracee runs after cont_all_and_set_bps the
\* code contains the trap at the addr of every enabled software breakpoint and
\* at no other address.
C3_TrapsOnlyWhileRunning ==
    /\ in_stop_window => \A a \in MemAddrs : ~TrapAt(mem, a)
    /\ (last.op = "cont_all_and_set_bps" /\ \E i \in 1..Len(t_HEAD) : ~Stopped(K, t_HEAD[i].tid))
          => \A a \in MemAddrs :
                TrapAt(mem, a) <=> \E i \in Enabled(sw_b_HEAD) : sw_b_HEAD[i].addr = a

ResumeOps == {"singlestep", "step_until", "prepare_for_run", "cont_all_and_set_bps",
              "stepping_finish"}

FirstResume(log, tids) ==
    FirstIndex(log, {j \in 1..Len(log) : IsResume(log[j]) /\ log[j].tid \in tids})

C5_FlushBeforeResume ==
    (last.op \in ResumeOps /\ FirstResume(klog, Tids) # 0)
        => \A i \in 1..Len(t_HEAD) :
              \E j \in 1..(FirstResume(klog, Tids) - 1) :
                 /\ klog[j].req = "SETREGS"
                 /\ klog[j].tid = t_HEAD[i].tid
                 /\ klog[j].ok
                 /\ FirstResume(klog, {t_HEAD[i].tid}) # 0
                       => klog[FirstResume(klog, {t_HEAD[i].tid})].ip
                             = INSTRUCTION_POINTER(klog[j].arg)

\* cont_all_and_set_bps has written back a caller modification of a cached
\* instruction pointer and stepped the thread over a breakpoint before resuming
C5_Witness ==
    /\ last.op = "cont_all_and_set_bps"
    /\ Len(t_HEAD) = 2
    /\ \E j \in 1..Len(klog) : klog[j].req = "SETREGS" /\ klog[j].arg.ip # klog[j].ip
    /\ \E j \in 1..Len(klog) : klog[j].req = "SINGLESTEP"

StrictlyAscending(B) == \A i \in 1..Len(B), j \in 1..Len(B) : i < j => B[i].addr < B[j].addr

\* C6: after any sequence of register_breakpoint, unregister_breakpoint,
\* enable_breakpoint and disable_breakpoint calls the software-breakpoint list is
\* sorted strictly ascending by addr, so no address appears twice, and a
\* register_breakpoint of an address already in the list adds no entry: it leaves
\* the addresses of the list as they are.
C6_SortedNoDuplicates ==
    [][/\ StrictlyAscending(sw_b_HEAD')
       /\ \A a \in BpAddrs :
             (register_breakpoint(Pid, a) /\ SwIndex(sw_b_HEAD, a) # 0)
                 => /\ Len(sw_b_HEAD') = Len(sw_b_HEAD)
                    /\ \A i \in 1..Len(sw_b_HEAD) : sw_b_HEAD'[i].addr = sw_b_HEAD[i].addr]_vars

\* the lower address was registered after the higher one, and both are in the list
C6_Witness ==
    /\ last.op = "register_breakpoint"
    /\ last.addr = 0
    /\ Len(sw_b_HEAD) = 2
    /\ sw_b_HEAD[1].instruction[2] = OP_INT3

\* C10: register_thread of a tid already in the live list leaves the list with
\* exactly one entry for the tid, issues no kernel request (no GETREGS), leaves
\* the cached regs and signal_to_forward of every entry as they are, and returns
\* the register block of the entry the first call created.
C10_RegisterThreadIdempotent ==
    [][\A tid \in Tids : \A regs \in RegsRead(tid) :
          (register_thread(tid, regs) /\ get_thread(tid) # 0)
              => /\ t_HEAD' = t_HEAD
                 /\ Cardinality({i \in 1..Len(t_HEAD') : t_HEAD'[i].tid = tid}) = 1
                 /\ klog' = <<>>
                 /\ last'.ret = t_HEAD[get_thread(tid)].obj]_vars

\* a repeated register_thread has returned while the thread's cache holds a
\* caller modification not yet flushed and a signal to forward
C10_Witness ==
    /\ last.op = "register_thread"
    /\ klog = <<>>
    /\ get_thread(last.tid) # 0
    /\ t_HEAD[get_thread(last.tid)].regs # kregs[last.tid]
    /\ t_HEAD[get_thread(last.tid)].signal_to_forward # 0
    /\ last.ret = t_HEAD[get_thread(last.tid)].obj

HasSlot(tid, address) == \E i \in 0..(NumDebugRegs - 1) : dr[tid][i] = address

\* C7: after any sequence of register_hw_breakpoint, unregister_hw_breakpoint,
\* enable_hw_breakpoint and disable_hw_breakpoint calls, every enabled entry of the
\* hardware-breakpoint list has a slot of its thread's debug registers programmed
\* with its address, and no slot of the thread holds the address of a disabled entry.
C7_EnabledIffSlot ==
    \A i \in 1..Len(hw_b_HEAD) :
        hw_b_HEAD[i].enabled <=> HasSlot(hw_b_HEAD[i].tid, hw_b_HEAD[i].addr)

\* C8: register_hw_breakpoint from a debug-register state with a free slot,
\* followed by unregister_hw_breakpoint of the same thread and address, leaves
\* DR0..DR3 and every bit of DR7 of the thread as they were before the register call.
C8_RegisterUnregisterRestores ==
    (snap.valid /\ snap.done /\ \E i \in 0..(NumDebugRegs - 1) : snap.dr[i] = 0)
        => (dr[snap.tid] = snap.dr /\ dr7[snap.tid] = snap.dr7)

\* C9: register_hw_breakpoint of a fifth distinct address on a thread whose
\* DR0..DR3 are all non-zero changes nothing: the hardware-breakpoint list and
\* the thread's DR0..DR3 and DR7 are after the call what they were before it.
C9_FifthRejected ==
    [][\A tid \in HwTids : \A r \in HwRequests :
          (/\ register_hw_breakpoint(tid, r[1], r[2], r[3])
           /\ \A i \in 0..(NumDebugRegs - 1) : dr[tid][i] # 0
           /\ HwIndex(tid, r[1]) = 0)
              => (hw_b_HEAD' = hw_b_HEAD /\ dr' = dr /\ dr7' = dr7)]_vars

\* the entry points that are not unregister_thread and not free_thread_list
OtherEntryPoint ==
    \/ cont_all_and_set_bps
    \/ \E tid \in Tids : singlestep(tid)
    \/ \E tid \in Tids, a \in StepTargets, n \in StepBounds : step_until(tid, a, n)
    \/ \E tid \in Tids : stepping_finish(tid)
    \/ \E head \in Tids, race \in [Tids -> Races] : wait_all_and_update_regs(head, race)
    \/ \E tid \in Tids : \E regs \in AnyRegs : register_thread(tid, regs)
    \/ \E race \in [Tids -> Races] : ptrace_detach_and_cont(Pid, race)

\* the kernel request e was made for an entry of the live list T
ForLiveEntry(e, T) ==
    \E i \in 1..Len(T) :
        /\ T[i].tid = e.tid
        /\ e.req = "SETREGS" => e.arg = T[i].regs
        /\ IsResume(e) => e.arg = T[i].signal_to_forward

\* C11: unregister_thread(tid) moves the entry of tid from the live list to
\* the head of the dead list with its cached registers as they were, and no
\* other entry point than free_thread_list changes the dead list afterwards:
\* the entries stay as they are, every register write-back, continue and
\* detach request is made for an entry of the live list, with that entry's
\* registers and signal
C11_DeadEntriesUntouched ==
    [][/\ \A tid \in Tids :
            (unregister_thread(tid) /\ ThreadIndex(t_HEAD, tid) # 0) =>
                /\ dead_t_HEAD' = <<t_HEAD[ThreadIndex(t_HEAD, tid)]>> \o dead_t_HEAD
                /\ ThreadIndex(t_HEAD', tid) = 0
       /\ OtherEntryPoint =>
            /\ dead_t_HEAD' = dead_t_HEAD
            /\ \A j \in 1..Len(klog') :
                  klog'[j].req \in {"SETREGS", "CONT", "SYSCALL", "DETACH"} =>
                      ForLiveEntry(klog'[j], t_HEAD)]_vars

\* a run has written registers back while a retired entry of the same thread
\* held other registers than the live one
C11_Witness ==
    /\ last.op \in {"cont_all_and_set_bps", "ptrace_detach_and_cont", "step_until"}
    /\ \E j \in 1..Len(klog) : klog[j].req = "SETREGS" /\ klog[j].ok
    /\ \E i \in 1..Len(dead_t_HEAD) : \E j \in 1..Len(klog) :
          /\ klog[j].req = "SETREGS"
          /\ klog[j].tid = dead_t_HEAD[i].tid
          /\ klog[j].arg # dead_t_HEAD[i].regs

\* the number of entries of the list T for the thread id tid
Entries(T, tid) == Cardinality({i \in 1..Len(T) : T[i].tid = tid})

\* the original statement of C12: every thread id has at most one entry in
\* the live list and the dead list taken together
C12_TidInAtMostOneList ==
    \A tid \in Tids : Entries(t_HEAD, tid) + Entries(dead_t_HEAD, tid) <= 1

\* C12: after any sequence of register_thread and unregister_thread calls
\* every thread id has at most one entry in the live list, and no entry is
\* in the live list and in the dead list or twice in a list; a thread id
\* that was registered again has entries in both lists
C12_LiveTidsUnique ==
    /\ \A tid \in Tids : Entries(t_HEAD, tid) <= 1
    /\ \A i, j \in 1..Len(t_HEAD) : t_HEAD[i].obj = t_HEAD[j].obj => i = j
    /\ \A i, j \in 1..Len(dead_t_HEAD) : dead_t_HEAD[i].obj = dead_t_HEAD[j].obj => i = j
    /\ \A i \in 1..Len(t_HEAD), j \in 1..Len(dead_t_HEAD) : t_HEAD[i].obj # dead_t_HEAD[j].obj

\* a thread id registered, unregistered and registered again, more than once
C12_Witness ==
    \E tid \in Tids : Entries(t_HEAD, tid) = 1 /\ Entries(dead_t_HEAD, tid) = 2

\* C13: register_thread(t); unregister_thread(t); register_thread(t) from a
\* state where t is in neither list: the unregistering retires the entry with
\* the registers cached at that time, and the second registering leaves that
\* dead entry as it is and puts one new entry for t at the head of the live
\* list, with signal_to_forward 0 and the registers read from the kernel
C13_ReRegisterAllocatesFresh ==
    [][\A tid \in Tids :
        /\ (unregister_thread(tid) /\ ThreadIndex(t_HEAD, tid) # 0
                                   /\ Entries(dead_t_HEAD, tid) = 0) =>
              /\ Entries(t_HEAD', tid) = 0
              /\ Entries(dead_t_HEAD', tid) = 1
              /\ dead_t_HEAD'[1] = t_HEAD[ThreadIndex(t_HEAD, tid)]
        /\ ((\E regs \in AnyRegs : register_thread(tid, regs))
                /\ last = Call("unregister_thread", tid, 0, 0)
                /\ Entries(t_HEAD, tid) = 0 /\ Entries(dead_t_HEAD, tid) = 1) =>
              /\ Entries(t_HEAD', tid) = 1
              /\ t_HEAD'[1].tid = tid
              /\ t_HEAD'[1].signal_to_forward = 0
              /\ t_HEAD'[1].regs \in RegsRead(tid)
              /\ \A i \in 1..Len(dead_t_HEAD) : t_HEAD'[1].obj # dead_t_HEAD[i].obj
              /\ \E j \in 1..Len(klog') : klog'[j].req = "GETREGS" /\ klog'[j].tid = tid
              /\ dead_t_HEAD' = dead_t_HEAD
              /\ last'.ret = t_HEAD'[1].obj]_vars

\* a thread registered again right after it was unregistered with registers
\* and a signal the caller had set: the dead entry keeps them, the live one is new
C13_Witness ==
    /\ last.op = "register_thread"
    /\ \E j \in 1..Len(klog) : klog[j].req = "GETREGS" /\ klog[j].tid = last.tid
    /\ Entries(t_HEAD, last.tid) = 1
    /\ Entries(dead_t_HEAD, last.tid) = 1
    /\ \E i \in 1..Len(dead_t_HEAD) :
          /\ dead_t_HEAD[i].tid = last.tid
          /\ dead_t_HEAD[i].regs # t_HEAD[1].regs
          /\ dead_t_HEAD[i].signal_to_forward # 0
    /\ t_HEAD[1].tid = last.tid

\* C14: INSTALL_BREAKPOINT applied to a word it has patched gives the same
\* word, and the patched word differs from the word read only in its low
\* byte, which holds the trap; register_breakpoint stores the word read and
\* the patched word in the entry it inserts and writes the patched word to
\* the address, so every higher byte in memory stays as it was
C14_PatchIdempotentHighBytesKept ==
    [][\A a \in BpAddrs : register_breakpoint(Pid, a) =>
         \E x \in {PeekData(mem, a)} : \E p \in {INSTALL_BREAKPOINT(x)} :
            /\ INSTALL_BREAKPOINT(p) = p
            /\ p[1] = OP_INT3
            /\ \A k \in 2..WordBytes : p[k] = x[k]
            /\ PeekData(mem', a) = p
            /\ \A k \in 2..WordBytes : mem'[a + k - 1] = mem[a + k - 1]
            /\ SwIndex(sw_b_HEAD, a) = 0 =>
                  /\ sw_b_HEAD'[SwIndex(sw_b_HEAD', a)].instruction = x
                  /\ sw_b_HEAD'[SwIndex(sw_b_HEAD', a)].patched_instruction = p]_vars

\* a breakpoint registered on a word that held a trap in its low byte
\* already and other non-zero bytes above it
C14_Witness ==
    /\ last.op = "register_breakpoint"
    /\ \E i \in 1..Len(sw_b_HEAD) :
          /\ sw_b_HEAD[i].addr = last.addr
          /\ sw_b_HEAD[i].instruction[1] = OP_INT3
          /\ sw_b_HEAD[i].patched_instruction = sw_b_HEAD[i].instruction
          /\ \E k \in 2..WordBytes : sw_b_HEAD[i].instruction[k] # 0
          /\ PeekData(mem, last.addr) = sw_b_HEAD[i].patched_instruction

\* the PTRACE_SINGLESTEP requests of a log
SingleSteps(log) ==
    LET single(e) == e.req = "SINGLESTEP"
    IN  SelectSeq(log, single)

\* the number of single-steps of log after which the thread's instruction
\* pointer was another one than before; final_ip is where the last one ended
IpChanges(log, final_ip) ==
    LET steps == SingleSteps(log)
        after(j) == IF j < Len(steps) THEN steps[j + 1].ip ELSE final_ip
    IN  Cardinality({j \in 1..Len(steps) : steps[j].ok /\ after(j) # steps[j].ip})

\* the original statement of C15: step_until with a bound makes at most
\* max_steps single-steps that change the instruction pointer, and with
\* max_steps = 0 it makes none, returns 0 and leaves the cached and the
\* kernel's instruction pointer of the thread as they were
C15_ZeroStepsLeavesKernelIp ==
    [][\A tid \in Tids, a \in StepUntilTargets, n \in StepLimits :
         (step_until(tid, a, n) /\ ThreadIndex(t_HEAD, tid) # 0) =>
            /\ IpChanges(klog', kregs'[tid].ip) <= n
            /\ n = 0 =>
                  /\ SingleSteps(klog') = <<>>
                  /\ last'.ret = 0
                  /\ t_HEAD'[ThreadIndex(t_HEAD, tid)].regs = t_HEAD[ThreadIndex(t_HEAD, tid)].regs
                  /\ kregs'[tid].ip = kregs[tid].ip]_vars

\* C15: step_until with a bound makes at most max_steps single-steps that
\* change the instruction pointer, and with max_steps = 0 it makes none,
\* returns 0 whether or not the thread is at the target, leaves the cached
\* registers as they were and leaves the kernel's instruction pointer equal
\* to the cached one, which the flush has written
C15_ZeroStepsFlushesOnly ==
    [][\A tid \in Tids, a \in StepUntilTargets, n \in StepLimits :
         (step_until(tid, a, n) /\ ThreadIndex(t_HEAD, tid) # 0) =>
            /\ IpChanges(klog', kregs'[tid].ip) <= n
            /\ n = 0 =>
                  /\ SingleSteps(klog') = <<>>
                  /\ last'.ret = 0
                  /\ t_HEAD'[ThreadIndex(t_HEAD, tid)].regs = t_HEAD[ThreadIndex(t_HEAD, tid)].regs
                  /\ kregs'[tid] = t_HEAD[ThreadIndex(t_HEAD, tid)].regs]_vars

\* step_until has returned without a single-step from a thread that is not
\* at the target and whose cached instruction pointer the caller had changed
C15_Witness ==
    /\ last.op = "step_until"
    /\ last.ret = 0
    /\ ThreadIndex(t_HEAD, last.tid) # 0
    /\ SingleSteps(klog) = <<>>
    /\ \E j \in 1..Len(klog) :
          klog[j].req = "SETREGS" /\ klog[j].tid = last.tid /\ klog[j].arg.ip # klog[j].ip
    /\ kregs[last.tid].ip # last.addr

\* the signal_to_forward fields of the live list T, in list order
SignalsOf(T) == [i \in 1..Len(T) |-> T[i].signal_to_forward]

\* C16: singlestep(tid) hands the signal_to_forward of the entry of tid to
\* its one PTRACE_SINGLESTEP request, on tid, and sets that field to 0; the
\* field of every other live entry stays as it was, and a
\* wait_all_and_update_regs changes the field of no entry
C16_SinglestepForwardsOnce ==
    [][/\ \A tid \in Tids :
            (singlestep(tid) /\ ThreadIndex(t_HEAD, tid) # 0) =>
               /\ Len(SingleSteps(klog')) = 1
               /\ SingleSteps(klog')[1].tid = tid
               /\ SingleSteps(klog')[1].arg = t_HEAD[ThreadIndex(t_HEAD, tid)].signal_to_forward
               /\ \A j \in 1..Len(klog') : ~(klog'[j].req \in {"CONT", "SYSCALL"})
               /\ Len(t_HEAD') = Len(t_HEAD)
               /\ \A i \in 1..Len(t_HEAD) :
                     t_HEAD'[i].signal_to_forward =
                         IF t_HEAD[i].tid = tid THEN 0 ELSE t_HEAD[i].signal_to_forward
       /\ (\E head \in Tids, race \in [Tids -> Races] :
               wait_all_and_update_regs(head, race)) =>
             SignalsOf(t_HEAD') = SignalsOf(t_HEAD)]_vars

\* a single-step has forwarded the signal of its thread while the other live
\* thread had a signal to forward too, which it still has
C16_Witness ==
    /\ last.op = "singlestep"
    /\ Len(SingleSteps(klog)) = 1
    /\ SingleSteps(klog)[1].arg = SIGUSR1
    /\ SingleSteps(klog)[1].ok
    /\ \E i, j \in 1..Len(t_HEAD) :
          /\ t_HEAD[i].tid = last.tid
          /\ t_HEAD[i].signal_to_forward = 0
          /\ t_HEAD[j].tid # last.tid
          /\ t_HEAD[j].signal_to_forward = SIGUSR1

\* the DETACH requests of a log
Detaches(log) ==
    LET detach(e) == e.req = "DETACH"
    IN  SelectSeq(log, detach)

\* C17: after ptrace_detach_and_cont the memory at every registered
\* breakpoint address holds the word of the program, without trap; every
\* live thread has been detached, the main thread last; and no thread of the
\* tracee is ended by a trap on its way to completion
C17_DetachLeavesOriginalCode ==
    last.op = "ptrace_detach_and_cont" =>
        /\ \A i \in 1..Len(sw_b_HEAD) :
              PeekData(mem, sw_b_HEAD[i].addr) = PeekData(Program, sw_b_HEAD[i].addr)
        /\ \A i \in 1..Len(t_HEAD) : krun[t_HEAD[i].tid] # "stopped"
        /\ Len(Detaches(klog)) = Len(t_HEAD)
        /\ Detaches(klog) # <<>> => Detaches(klog)[Len(Detaches(klog))].tid = Pid
        /\ \A t \in Tids : krun[t] # "killed"

\* C18: prepare_for_run single-steps a live thread exactly when the cached
\* instruction pointer it has flushed for the thread is the address of an
\* enabled software breakpoint, and at each such step the memory under the
\* thread holds the breakpoint's original instruction, not the trap
C18_StepOverOnlyEnabled ==
    last.op = "cont_all_and_set_bps" =>
        \A j \in 1..Len(klog) : klog[j].req = "SETREGS" =>
            /\ (\E s \in 1..Len(klog) : /\ klog[s].req = "SINGLESTEP"
                                        /\ klog[s].tid = klog[j].tid)
                 <=> (\E i \in 1..Len(sw_b_HEAD) : /\ sw_b_HEAD[i].addr = klog[j].arg.ip
                                                   /\ sw_b_HEAD[i].enabled)
            /\ \A s \in 1..Len(klog) :
                  (klog[s].req = "SINGLESTEP" /\ klog[s].tid = klog[j].tid) =>
                      /\ klog[s].byte # OP_INT3
                      /\ \A i \in 1..Len(sw_b_HEAD) :
                            sw_b_HEAD[i].addr = klog[s].ip =>
                                klog[s].byte = sw_b_HEAD[i].instruction[1]

\* C19: when prepare_for_run returns, on its own or inside
\* cont_all_and_set_bps, also after a failed single-step request, the cached
\* registers of every live thread have gone to the kernel, no thread in
\* ptrace-stop that was at an enabled breakpoint is still there, and the
\* memory word at every enabled breakpoint is its patched word; so
\* cont_all_and_set_bps issues its resume requests in such a state only
C19_PreparedOnEveryReturn ==
    [][(prepare_for_run_entry \/ cont_all_and_set_bps_entry) =>
         /\ \A i \in 1..Len(t_HEAD) :
               /\ \E j \in 1..Len(klog') : /\ klog'[j].req = "SETREGS"
                                           /\ klog'[j].tid = t_HEAD[i].tid
                                           /\ klog'[j].arg = t_HEAD[i].regs
               /\ (/\ Stopped(K, t_HEAD[i].tid)
                   /\ \E b \in 1..Len(sw_b_HEAD) :
                         /\ sw_b_HEAD[b].enabled
                         /\ sw_b_HEAD[b].addr = INSTRUCTION_POINTER(t_HEAD[i].regs))
                    => kregs'[t_HEAD[i].tid].ip # INSTRUCTION_POINTER(t_HEAD[i].regs)
         /\ \A b \in 1..Len(sw_b_HEAD) :
               sw_b_HEAD[b].enabled =>
                   PeekData(mem', sw_b_HEAD[b].addr) = sw_b_HEAD[b].patched_instruction]_vars

CallBytes == <<OP_CALL, 3, 0, 0, 0, OP_NOP, OP_JMP8, 253,
               OP_NOP, OP_CALL, 1, 0, 0, 0, OP_RET,
               OP_NOP, OP_RET>>
CallProgram == [a \in MemAddrs |-> IF a < Len(CallBytes) THEN CallBytes[a + 1] ELSE 0]

InitFinish ==
    /\ t_HEAD = <<[tid |-> 2, regs |-> [ip |-> 0], signal_to_forward |-> 0, obj |-> 2],
                  [tid |-> 1, regs |-> [ip |-> 0], signal_to_forward |-> 0, obj |-> 1]>>
    /\ dead_t_HEAD = <<>>
    /\ sw_b_HEAD = <<>>
    /\ hw_b_HEAD = <<>>
    /\ handle_syscall_enabled = FALSE
    /\ mem = CallProgram
    /\ kregs = [t \in Tids |-> [ip |-> 0]]
    /\ krun = [t \in Tids |-> "stopped"]
    /\ kstatus = [t \in Tids |-> 0]
    /\ ksigstop = [t \in Tids |-> FALSE]
    /\ kstack = [t \in Tids |-> <<>>]
    /\ dr = [t \in Tids |-> [i \in 0..(NumDebugRegs - 1) |-> 0]]
    /\ dr7 = [t \in Tids |-> {}]
    /\ last = Call("init", 0, 0, 0)
    /\ klog = <<>>
    /\ snap = NoSnap
    /\ in_stop_window = FALSE

\* the caller steps a thread whose registers it has read at the last wait
RegsCurrent ==
    \A i \in 1..Len(t_HEAD) : t_HEAD[i].regs = kregs[t_HEAD[i].tid]

NextFinish ==
    \/ \E tid \in Tids : RegsCurrent /\ singlestep(tid)
    \/ \E tid \in Tids : RegsCurrent /\ stepping_finish(tid)
    \/ \E head \in Tids, race \in [Tids -> Races] : wait_all_and_update_regs(head, race)
    \/ \E tid \in Tids : TraceeStep(tid)

SpecFinish == InitFinish /\ [][NextFinish]_vars

\* the thread is stopped inside a called function and its cached registers are
\* the kernel's
InFunctionBody(tid) ==
    /\ kstack[tid] # <<>>
    /\ ThreadIndex(t_HEAD, tid) # 0
    /\ RegsCurrent

\* the cached instruction pointer of a live thread
CachedIp(T, tid) == INSTRUCTION_POINTER(T[ThreadIndex(T, tid)].regs)

\* C21: with no breakpoint in the way, stepping_finish started at any
\* instruction of a function body, a call or a return included, returns with
\* the cached instruction pointer at the instruction that follows the call
\* that entered the function
C21_FinishReturnsToCaller ==
    [][(InFunctionBody(1) /\ stepping_finish(1))
          => (last'.ret = 0 /\ CachedIp(t_HEAD', 1) = Head(kstack[1]))]_vars

\* the same for the starts that are neither a call nor a return
C21_FinishFromPlainInstruction ==
    [][(InFunctionBody(1) /\ mem[kregs[1].ip] \notin {OP_CALL, OP_RET}
            /\ stepping_finish(1))
          => (last'.ret = 0 /\ CachedIp(t_HEAD', 1) = Head(kstack[1]))]_vars


\* C22: on every return of stepping_finish, the thread not found and the failed
\* single-step included, the memory word at every enabled software breakpoint
\* is its original word, the state of the code that wait_all_and_update_regs
\* leaves
C22_FinishLeavesCodeClean ==
    last.op = "stepping_finish" =>
        \A i \in 1..Len(sw_b_HEAD) :
            sw_b_HEAD[i].enabled =>
                PeekData(mem, sw_b_HEAD[i].addr) = sw_b_HEAD[i].instruction

\* the same on the returns that come after the search for the thread
C22_FinishFoundLeavesCodeClean ==
    (last.op = "stepping_finish" /\ ThreadIndex(t_HEAD, last.tid) # 0) =>
        \A i \in 1..Len(sw_b_HEAD) :
            sw_b_HEAD[i].enabled =>
                PeekData(mem, sw_b_HEAD[i].addr) = sw_b_HEAD[i].instruction


\* what a call on a thread id that is not in the live list has to leave alone,
\* and what it has to return
NoOpReturn ==
    /\ last'.ret = -1
    /\ \A j \in 1..Len(klog') : klog'[j].req # "SINGLESTEP"
    /\ mem' = mem
    /\ kregs' = kregs
    /\ UNCHANGED <<t_HEAD, dead_t_HEAD, sw_b_HEAD, hw_b_HEAD>>

\* C25: step_until and stepping_finish with a thread id that is not in the live
\* list return -1, issue no single-step, and leave the tracee's code, the
\* kernel registers of every thread and the thread and breakpoint tables as
\* they were
C25_UnknownTidIsNoOp ==
    [][\A tid \in LifeTids :
          (/\ ThreadIndex(t_HEAD, tid) = 0
           /\ \/ stepping_finish(tid)
              \/ \E a \in StepTargets, n \in StepBounds : step_until(tid, a, n))
          => NoOpReturn]_vars

\* the same for step_until alone, with another thread in the live list
C25_StepUntilUnknownTidIsNoOp ==
    [][\A tid \in Tids :
          (/\ ThreadIndex(t_HEAD, tid) = 0
           /\ \E a \in StepUntilTargets, n \in StepLimits : step_until(tid, a, n))
          => NoOpReturn]_vars


\* C23: the code follows the enabled flag at the next boundary: once
\* wait_all_and_update_regs or the prepare_for_run of cont_all_and_set_bps has
\* returned, no breakpoint that has been disabled has its trap in the
\* tracee's code, stopped or running, and once the prepare_for_run has returned
\* every enabled breakpoint has
C23_MemoryFollowsEnabledFlag ==
    last.op \in {"wait_all_and_update_regs", "cont_all_and_set_bps"} =>
        \A i \in 1..Len(sw_b_HEAD) :
            IF sw_b_HEAD[i].enabled
            THEN last.op = "cont_all_and_set_bps" => TrapAt(mem, sw_b_HEAD[i].addr)
            ELSE ~TrapAt(mem, sw_b_HEAD[i].addr)

\* enable_breakpoint and disable_breakpoint write the flag of the entry only
C23_ToggleWritesFlagOnly ==
    [][\A a \in BpAddrs : (enable_breakpoint(a) \/ disable_breakpoint(a)) =>
          /\ mem' = mem
          /\ klog' = <<>>
          /\ Len(sw_b_HEAD') = Len(sw_b_HEAD)
          /\ \A i \in 1..Len(sw_b_HEAD) :
                sw_b_HEAD'[i] = [sw_b_HEAD[i] EXCEPT !.enabled = sw_b_HEAD'[i].enabled]]_vars


\* the addresses of the enabled software breakpoints
EnabledAddrs(B) == {B[i].addr : i \in Enabled(B)}

\* C24: with enabled breakpoints whose machine words overlap, registered in
\* either order, the restore of wait_all_and_update_regs leaves every byte of
\* the code as it was before any breakpoint was installed, and the install of
\* prepare_for_run leaves the trap at every enabled breakpoint address and
\* the original byte everywhere else
C24_OverlapRestoredAndInstalled ==
    /\ last.op = "wait_all_and_update_regs" => mem = Program
    /\ last.op = "cont_all_and_set_bps" =>
          \A a \in MemAddrs :
              mem[a] = IF a \in EnabledAddrs(sw_b_HEAD) THEN OP_INT3 ELSE Program[a]

\* both breakpoints are registered, the one at the higher address first, so
\* that the original word of the lower one has been read with the trap of the
\* higher one in it, and a wait has restored the code
C24_Witness ==
    /\ last.op = "wait_all_and_update_regs"
    /\ EnabledAddrs(sw_b_HEAD) = BpAddrs
    /\ \E i \in 1..Len(sw_b_HEAD) :
          /\ sw_b_HEAD[i].addr = 0
          /\ TrapAt(sw_b_HEAD[i].instruction, 2)
    /\ mem = Program


\* C26: the low byte of the original word of every software-breakpoint entry
\* is the tracee's own instruction byte at the entry's address and never the
\* trap opcode, whatever has been registered, unregistered, enabled and
\* disabled and however often the tracee has run, so that writing the original
\* word back removes the trap
C26_OriginalWordIsRealCode ==
    \A i \in 1..Len(sw_b_HEAD) :
        /\ sw_b_HEAD[i].instruction[1] = Program[sw_b_HEAD[i].addr]
        /\ ~IS_SW_BREAKPOINT(sw_b_HEAD[i].instruction[1])


\* C27: when wait_all_and_update_regs has returned, no live thread has a
\* SIGSTOP of the core still queued: each one sent has been consumed by the
\* waitpid that followed it, also when the thread stopped on its own between
\* the failed register read and the delivery of the signal
C27_NoSigstopLeftAfterWait ==
    last.op = "wait_all_and_update_regs" =>
        \A i \in 1..Len(t_HEAD) : ~ksigstop[t_HEAD[i].tid]


\* the debug-register slots of a thread that hold no address
FreeSlots(tid) == {i \in 0..(NumDebugRegs - 1) : dr[tid][i] = 0}

\* C28: after any sequence of hardware-breakpoint calls on a thread,
\* get_remaining_hw_breakpoint_count(tid) is the number of free debug-register
\* slots of the thread
C28_RemainingCountIsFreeSlots ==
    \A tid \in HwTids :
        get_remaining_hw_breakpoint_count(tid) = Cardinality(FreeSlots(tid))

=============================================================================
